---------------------------- MODULE Spec2Model ----------------------------
(***************************************************************************)
(* Model of the xUmbra VPN bot.  Its state machines share this module:     *)
(*                                                                         *)
(*   SpecRevoke  - XUIClient.delete_client applied once to every panel     *)
(*                 state and every panel behaviour                         *)
(*                 (src/bot/xui_client.py);                                *)
(*   SpecXui     - one XUIClient session against one 3x-ui panel inbound,  *)
(*                 over sequences of add_vless_client and delete_client;   *)
(*   SpecService - SubscriptionService.create_subscription_for_user called *)
(*                 from concurrent threads, one step per SQLite            *)
(*                 transaction or panel call                               *)
(*                 (src/bot/subscription_service.py, src/bot/database.py); *)
(*   SpecLedger  - the users and invite_codes operations of Database       *)
(*                 called from concurrent threads (src/bot/database.py);   *)
(*   Spec        - the bot's handlers of src/bot/main.py over the users /  *)
(*                 vpn_keys / servers / payments tables, one action per    *)
(*                 handler;                                                *)
(*   SpecKeys    - the purchase and key handlers of src/bot/main.py with   *)
(*                 more keys issued;                                       *)
(*   SpecSweep   - the daily sweep of expired subscriptions over every     *)
(*                 users table (daily_scheduler of src/bot/main.py);       *)
(*   SpecPurchase- one purchase through create_subscription_for_user by a  *)
(*                 user who has a balance;                                 *)
(*   SpecLink    - the connection link of add_vless_client built for every *)
(*                 shape of the inbound's transport settings;              *)
(*   SpecLogin   - XUIClient.login applied once to every configuration and *)
(*                 every outcome of the login request;                     *)
(*   SpecAuth    - two callers in ensure_login on one XUIClient;           *)
(*   SpecLabel   - the client dicts of successive add_vless_client calls   *)
(*                 under a clock of whole seconds;                         *)
(*   SpecAdd     - add_vless_client applied once to every configuration    *)
(*                 and every combination of panel answers;                 *)
(*   SpecInvite  - Database.use_invite_code statement by statement inside  *)
(*                 its transaction, on two threads;                        *)
(*   SpecUri     - the link add_vless_client returns, for every listen     *)
(*                 address, port and display name;                         *)
(*   SpecQuota   - the traffic quota in bytes sent to the panel, for every *)
(*                 traffic_gb.                                             *)
(***************************************************************************)
EXTENDS Integers, Sequences, FiniteSets, TLC

(***************************************************************************)
(* Bounds of the model.                                                    *)
(***************************************************************************)
MaxUuid == 2            \* credentials uuid4() hands out in one run
MaxNow == 3             \* clock ticks in one run
MaxIssued == 2          \* rows ever inserted into vpn_keys, in Spec
MaxKeys == 4            \* rows ever inserted into vpn_keys
MaxPayments == 2        \* rows of the payments table
MaxDate == 3            \* SpecSweep: latest day and end date it starts from
MaxTicks == 1           \* times the date changes in one run
MaxLogins == 3          \* SpecAuth: login requests sent in one run
MaxCalls == 3           \* SpecLabel: add_vless_client calls in one run
MaxTraffic == 60        \* SpecQuota: largest traffic_gb a call is given

(***************************************************************************)
(* Constants of the program.                                               *)
(***************************************************************************)
KeysLimit == 3          \* handle_create_key: keys_count >= 3
DaysPerMonth == 30      \* process_successful_payment: days = duration_months * 30
InviteeDays == 3        \* handle_start: DATE('now', '+3 days')
PlanPrice == 399        \* SubscriptionService.PLANS: the price of a plan
RenewalWindow == 3      \* select_plan: int(days_remaining) > 3

VARIABLES
    \* ---- XUIClient and its panel (xui_client.py) ----
    xcfg,             \* constructor arguments: api_token / username+password / inbound_id
    authorized,       \* XUIClient._authorized
    inbound_clients,  \* ids in the "clients" list of the panel's inbound settings
    uuid_count,       \* how many uuid4() values have been drawn
    xres,             \* what the last add_vless_client / delete_client call did
    delete_called,    \* credential ids delete_client has been called with
    deleted_logged,   \* credential ids a "Successfully deleted client" line names
    panel,            \* SpecRevoke: the answers the panel gives to the call under test
    \* ---- Database (database.py) and its callers' threads ----
    now,              \* datetime.now(), in clock ticks
    users,            \* users table: user_id -> row
    subscriptions,    \* subscriptions table, in id (= created_at) order
    payments,         \* payments table, in id order
    invites,          \* invites table, in id order
    pc,               \* per thread: where its current call stands
    call,             \* per thread: arguments and locals of its current call
    \* ---- the bot (main.py) ----
    ticks,            \* how often the date has changed
    servers,          \* servers table: id -> "absent" / "active" / "inactive"
    vpn_keys,         \* vpn_keys table: set of rows
    key_seq,          \* lastrowid of vpn_keys
    fsm,              \* per user: FSM state and data
    shown,            \* per user: key buttons the bot has sent
    invoices,         \* per user: payloads of the invoices the bot has sent
    last              \* what the last handler did, if it was a key handler

xvars == <<xcfg, authorized, inbound_clients, uuid_count, xres, delete_called,
           deleted_logged, panel>>

dbvars == <<now, users, subscriptions, payments, invites, pc, call>>

botvars == <<ticks, servers, vpn_keys, key_seq, fsm, shown, invoices, last>>

vars == <<xvars, dbvars, botvars>>

(***************************************************************************)
(*                     XUIClient  (src/bot/xui_client.py)                  *)
(***************************************************************************)

ClientIds == 1..MaxUuid

\* XUIClient.__init__: the ways a client can be configured.  inbound_id 0
\* stands for a missing (None / 0) inbound id.
XuiConfigs == [api_token : BOOLEAN, creds : BOOLEAN, inbound_id : {0, 1}]

\* What POST login may come to: the status code of the final response (the
\* httpx client follows redirects that carry a Location), or no response at
\* all (connection error, timeout).
LoginResponses == {"200", "204", "301", "302", "401", "neterr", "timeout"}

\* What GET panel/api/inbounds/list may yield: a listing holding the
\* configured inbound, a listing without it, or no usable listing (network
\* error, body that is not a JSON object).
ListResponses == {"ok", "no_inbound", "error"}

\* The shape of the chosen inbound's "settings" field: a JSON object with a
\* list of client objects, a string json.loads rejects (read as {}), or a
\* JSON value that is no object or whose clients are no objects (the
\* .get() calls on it raise AttributeError).
SettingsShapes == {"object", "unparsable", "malformed"}

\* What an update / delete endpoint may answer: 200 with a success body,
\* 200 with success = false, another status, or an exception from the call
\* (network error, body that is not JSON).
StrategyResponses == {"ok", "success_false", "http_error", "exception"}

\* The update strategies of delete_client, in the order of the source.
Strategies ==
    << "POST update/{id}", "POST updateAll", "POST update",
       "PUT inbounds/{id}", "POST delClient" >>

StrategyIdx == 1..Len(Strategies)

\* login() accepting every 2xx and 3xx status.
login_any_2xx_3xx(cfg, resp) ==
    IF cfg.api_token
    THEN [authorized |-> TRUE, raised |-> FALSE, posts |-> 0]
    ELSE IF ~cfg.creds
    THEN [authorized |-> FALSE, raised |-> TRUE, posts |-> 0]
    ELSE IF resp \in {"200", "204", "301", "302"}
    THEN [authorized |-> TRUE, raised |-> FALSE, posts |-> 1]
    ELSE [authorized |-> FALSE, raised |-> TRUE, posts |-> 1]

\* login() setting the session flag once the request is sent, whatever the
\* response.
login_flag_on_failure(cfg, resp) ==
    IF cfg.api_token
    THEN [authorized |-> TRUE, raised |-> FALSE, posts |-> 0]
    ELSE IF ~cfg.creds
    THEN [authorized |-> FALSE, raised |-> TRUE, posts |-> 0]
    ELSE IF resp \in {"200", "302"}
    THEN [authorized |-> TRUE, raised |-> FALSE, posts |-> 1]
    ELSE [authorized |-> TRUE, raised |-> TRUE, posts |-> 1]

\* login() looking at username / password before the token.
login_creds_first(cfg, resp) ==
    IF cfg.creds
    THEN IF resp \in {"200", "302"}
         THEN [authorized |-> TRUE, raised |-> FALSE, posts |-> 1]
         ELSE [authorized |-> FALSE, raised |-> TRUE, posts |-> 1]
    ELSE IF cfg.api_token
    THEN [authorized |-> TRUE, raised |-> FALSE, posts |-> 0]
    ELSE [authorized |-> FALSE, raised |-> TRUE, posts |-> 0]

\* login(): the session flag afterwards, whether it raised, and the number
\* of login requests sent.
login(cfg, resp) ==
    IF cfg.api_token
    THEN [authorized |-> TRUE, raised |-> FALSE, posts |-> 0]
    ELSE IF ~cfg.creds
    THEN [authorized |-> FALSE, raised |-> TRUE, posts |-> 0]
    ELSE IF resp \in {"200", "302"}
    THEN [authorized |-> TRUE, raised |-> FALSE, posts |-> 1]
    ELSE [authorized |-> FALSE, raised |-> TRUE, posts |-> 1]

\* ensure_login() calling login() every time.
ensure_login_always(auth, cfg, resp) ==
    login(cfg, resp)

\* ensure_login(): login only when the session is not authorized yet.
ensure_login(auth, cfg, resp) ==
    IF auth
    THEN [authorized |-> TRUE, raised |-> FALSE, posts |-> 0]
    ELSE login(cfg, resp)

\* The record of a call: how it ended, what it sent and the panel's client
\* list before and after it.
CallResult(op, cid, was, auth, posts, raised, outcome, before, clients) ==
    [op |-> op, client |-> cid, was_authorized |-> was, authorized |-> auth,
     raised |-> raised,
     outcome |-> outcome, logins |-> posts, requests |-> << >>,
     responses |-> << >>, before |-> before, clients |-> clients,
     repeated |-> FALSE, relogged |-> FALSE]

\* The five try-blocks of delete_client, from block i on: send the request,
\* return on HTTP 200 with a success body, otherwise fall to the next block;
\* after the last block print the warning and return.  A panel that answers
\* an update with success has dropped the client.
RECURSIVE try_strategies(_, _, _)
try_strategies_no_return(i, resp, acc) ==
    IF i > Len(Strategies)
    THEN (IF "ok" \in {resp[j] : j \in StrategyIdx}
          THEN [acc EXCEPT !.outcome = "deleted", !.clients = @ \ {acc.client}]
          ELSE [acc EXCEPT !.outcome = "warning"])
    ELSE try_strategies(i + 1, resp,
                        [acc EXCEPT !.requests = Append(@, Strategies[i]),
                                    !.responses = Append(@, resp[i])])

try_strategies_four(i, resp, acc) ==
    IF i > Len(Strategies) - 1
    THEN [acc EXCEPT !.outcome = "warning"]
    ELSE LET sent == [acc EXCEPT !.requests = Append(@, Strategies[i]),
                                 !.responses = Append(@, resp[i])]
         IN  IF resp[i] = "ok"
             THEN [sent EXCEPT !.outcome = "deleted",
                               !.clients = @ \ {acc.client}]
             ELSE try_strategies(i + 1, resp, sent)

try_strategies_uncaught(i, resp, acc) ==
    IF i > Len(Strategies)
    THEN [acc EXCEPT !.outcome = "warning"]
    ELSE LET sent == [acc EXCEPT !.requests = Append(@, Strategies[i]),
                                 !.responses = Append(@, resp[i])]
         IN  IF resp[i] = "ok"
             THEN [sent EXCEPT !.outcome = "deleted",
                               !.clients = @ \ {acc.client}]
             ELSE IF resp[i] = "exception"
             THEN [sent EXCEPT !.outcome = "request_failed", !.raised = TRUE]
             ELSE try_strategies(i + 1, resp, sent)

try_strategies(i, resp, acc) ==
    IF i > Len(Strategies)
    THEN [acc EXCEPT !.outcome = "warning"]
    ELSE LET sent == [acc EXCEPT !.requests = Append(@, Strategies[i]),
                                 !.responses = Append(@, resp[i])]
         IN  IF resp[i] = "ok"
             THEN [sent EXCEPT !.outcome = "deleted",
                               !.clients = @ \ {acc.client}]
             ELSE try_strategies(i + 1, resp, sent)

delete_client_no_lookup(auth, cfg, clients, cid, env) ==
    LET lg == ensure_login(auth, cfg, env.login)
        R(a, why) ==
            CallResult("delete_client", cid, auth, a, lg.posts, TRUE, why,
                       clients, clients)
    IN
    IF lg.raised THEN R(lg.authorized, "login_failed")
    ELSE IF cfg.inbound_id = 0 THEN R(TRUE, "inbound_id_not_set")
    ELSE IF env.list = "error" THEN R(TRUE, "list_failed")
    ELSE IF env.list = "no_inbound" THEN R(TRUE, "inbound_not_found")
    ELSE IF env.settings = "malformed" THEN R(TRUE, "settings_malformed")
    ELSE try_strategies(1, env.strategy,
                        CallResult("delete_client", cid, auth, TRUE, lg.posts,
                                   FALSE, "not_found", clients, clients))

\* delete_client(client_id) against a panel that behaves as env says.
delete_client(auth, cfg, clients, cid, env) ==
    LET lg == ensure_login(auth, cfg, env.login)
        R(a, why) ==
            CallResult("delete_client", cid, auth, a, lg.posts, TRUE, why,
                       clients, clients)
    IN
    IF lg.raised THEN R(lg.authorized, "login_failed")
    ELSE IF cfg.inbound_id = 0 THEN R(TRUE, "inbound_id_not_set")
    ELSE IF env.list = "error" THEN R(TRUE, "list_failed")
    ELSE IF env.list = "no_inbound" THEN R(TRUE, "inbound_not_found")
    ELSE IF env.settings = "malformed" THEN R(TRUE, "settings_malformed")
    ELSE LET listed == IF env.settings = "object" THEN clients ELSE {}
             start == CallResult("delete_client", cid, auth, TRUE, lg.posts,
                                 FALSE, "not_found", clients, clients)
         IN  IF cid \notin listed
             THEN start
             ELSE try_strategies(1, env.strategy, start)

(***************************************************************************)
(* The connection link of add_vless_client (lines 174-266).  A value of    *)
(* the inbound's transport settings is modelled by its JSON shape; a value *)
(* that ends up in the link is named by the field it was read from.        *)
(***************************************************************************)

\* chosen['streamSettings']: missing, a string holding a JSON object, a
\* string json.loads rejects, a string holding JSON that is no object, or
\* a value that is no string.
StreamShapes == {"absent", "json_object", "malformed", "json_not_object", "non_string"}

\* stream_settings['realitySettings']: missing, null, {}, a non-empty
\* object, or a non-empty value that is no object.
RealityShapes == {"absent", "null", "empty", "object", "not_object"}

\* reality_settings['settings']: missing, an object, a string holding a JSON
\* object, a string json.loads rejects, a string holding JSON that is no
\* object, or another value that is neither string nor object.
NestedShapes ==
    {"absent", "object", "json_object", "malformed", "json_not_object", "not_object"}

\* The shapes of a field's value: missing, null, "", a string that is no
\* JSON, a string holding a non-empty JSON list, a string holding a JSON
\* number, a non-empty list, [], a non-zero number.
\* A shortIds value may also be a list whose first element is "".
FieldShapes ==
    {"absent", "null", "empty_str", "text", "json_list", "json_scalar",
     "list", "empty_list", "number"}

\* bool(v) and isinstance(v, str) of Python.
Truthy(v) ==
    v \in {"text", "json_list", "json_scalar", "list", "list_empty_first", "number"}
IsStr(v) == v \in {"empty_str", "text", "json_list", "json_scalar"}

NoFields ==
    [publicKey |-> "absent", shortId |-> "absent", shortIds |-> "absent",
     serverNames |-> "absent", fingerprints |-> "absent"]

\* The inbounds the link is built from.  Fields the code cannot reach (below
\* a value it cannot read) are left absent.
Inbounds ==
    LET I(ss, rs, st, rf, sf) ==
            [streamSettings : ss, realitySettings : rs, settings : st,
             reality : rf, nested : sf]
        RealityFields ==
            [publicKey : {"absent"},
             shortId : {"absent", "empty_str", "text", "number"},
             shortIds : {"absent", "empty_list", "list", "list_empty_first",
                         "text", "number"},
             serverNames : FieldShapes,
             fingerprints : {"absent", "empty_list", "list", "text",
                             "json_list", "number"}]
        NestedFields ==
            [publicKey : {"absent", "text"},
             shortId : {"absent", "text"},
             shortIds : {"absent", "list"},
             serverNames : {"absent"},
             fingerprints : {"absent", "list", "text", "number"}]
    IN  I(StreamShapes \ {"json_object"}, {"absent"}, {"absent"},
          {NoFields}, {NoFields})
        \cup I({"json_object"}, RealityShapes \ {"object"}, {"absent"},
               {NoFields}, {NoFields})
        \cup I({"json_object"}, {"object"},
               NestedShapes \ {"object", "json_object"},
               RealityFields, {NoFields})
        \cup I({"json_object"}, {"object"}, {"object", "json_object"},
               RealityFields, NestedFields)

LinkResult(raised, error, pbk, fp, sni, sid) ==
    [op |-> "link", raised |-> raised, error |-> error,
     pbk |-> pbk, fp |-> fp, sni |-> sni, sid |-> sid]

\* Lines 184-191: settings as a dict.  A string is parsed, and replaced by
\* {} only when parsing fails; any other non-dict is replaced by {}.
settings_fields(chosen) ==
    IF chosen.settings \in {"object", "json_object"}
    THEN chosen.nested ELSE NoFields

\* Lines 203-207 and 212-216: what the shortIds value makes of sid.
from_short_ids(v) == v = "list" \/ (IsStr(v) /\ Truthy(v))

\* Lines 197-216 with line 261 writing sid as it is, empty or not.
resolve_sid_no_default(rs, settings) ==
    IF Truthy(rs.shortId) THEN "realitySettings.shortId"
    ELSE IF from_short_ids(rs.shortIds) THEN "realitySettings.shortIds"
    ELSE IF Truthy(settings.shortId) THEN "settings.shortId"
    ELSE IF from_short_ids(settings.shortIds) THEN "settings.shortIds"
    ELSE ""

\* Lines 197-216 looking under settings before realitySettings.
resolve_sid_settings_first(rs, settings) ==
    IF Truthy(settings.shortId) THEN "settings.shortId"
    ELSE IF from_short_ids(settings.shortIds) THEN "settings.shortIds"
    ELSE IF Truthy(rs.shortId) THEN "realitySettings.shortId"
    ELSE IF from_short_ids(rs.shortIds) THEN "realitySettings.shortIds"
    ELSE "3d"

\* Lines 197-216 and 261: the sid parameter of the link.
resolve_sid(rs, settings) ==
    IF Truthy(rs.shortId) THEN "realitySettings.shortId"
    ELSE IF from_short_ids(rs.shortIds) THEN "realitySettings.shortIds"
    ELSE IF Truthy(settings.shortId) THEN "settings.shortId"
    ELSE IF from_short_ids(settings.shortIds) THEN "settings.shortIds"
    ELSE "3d"

\* Lines 219-230 and 233-247: a list-or-string value after the
\* json.loads attempt on a string, then the choice between its first
\* element, itself and the default.
first_or_default(v, name, default) ==
    LET parsed == IF v = "json_list" THEN "list"
                  ELSE IF v = "json_scalar" THEN "number"
                  ELSE IF v = "text" THEN "list"
                  ELSE IF v = "empty_str" THEN "empty_list"
                  ELSE v
    IN  IF parsed = "list" THEN name ELSE default

\* Lines 218-230: the sni parameter.
resolve_sni(rs) ==
    first_or_default(rs.serverNames, "realitySettings.serverNames", "google.com")

\* Lines 232-247: the fp parameter.
resolve_fp(rs, settings) ==
    IF Truthy(settings.fingerprints)
    THEN first_or_default(settings.fingerprints, "settings.fingerprints", "chrome")
    ELSE first_or_default(rs.fingerprints, "realitySettings.fingerprints", "chrome")

\* Lines 174-266: the link add_vless_client returns for the chosen inbound,
\* or the exception it ends with.
build_link(chosen) ==
    LET Raise(e) == LinkResult(TRUE, e, "none", "none", "none", "none")
        Defaults == LinkResult(FALSE, "none", "omitted", "chrome", "google.com", "3d")
        settings == settings_fields(chosen)
    IN
    \* 175: json.loads(chosen.get('streamSettings', '{}'))
    IF chosen.streamSettings = "non_string" THEN Raise("TypeError")
    ELSE IF chosen.streamSettings = "malformed" THEN Raise("JSONDecodeError")
    \* 176: stream_settings.get('realitySettings') or {}
    ELSE IF chosen.streamSettings = "json_not_object" THEN Raise("AttributeError")
    ELSE IF chosen.streamSettings = "absent" THEN Defaults
    ELSE IF chosen.realitySettings \in {"absent", "null", "empty"} THEN Defaults
    \* 186: reality_settings.get('settings', {})
    ELSE IF chosen.realitySettings = "not_object" THEN Raise("AttributeError")
    \* 194: settings.get('publicKey', '') on what json.loads returned
    ELSE IF chosen.settings = "json_not_object" THEN Raise("AttributeError")
    ELSE LinkResult(FALSE, "none",
                    IF Truthy(settings.publicKey) THEN "settings.publicKey"
                    ELSE "omitted",
                    resolve_fp(chosen.reality, settings),
                    resolve_sni(chosen.reality),
                    resolve_sid(chosen.reality, settings))

\* Line 174: chosen.get('port') or 'PORT'.
link_port(port) == IF port \in {"absent", "0"} THEN "PORT" ELSE port

\* Lines 249-255: the listen address of the inbound, or the host of base_url
\* when the inbound listens on every address.
server_ip(listen) ==
    IF listen \in {"absent", "empty_str", "0.0.0.0"} THEN "base_url host"
    ELSE listen

\* Line 263: display_name or email.split('@')[0].
link_label(display_name, local_part) ==
    IF display_name = "" THEN local_part ELSE display_name

\* Lines 258-263 writing the pbk parameter whether or not a key was found.
vless_link_pbk_always(client_uuid, host, port, r, label) ==
    [scheme |-> "vless", id |-> client_uuid, host |-> host, port |-> port,
     query |-> <<
         <<"type", "tcp">>, <<"encryption", "none">>, <<"security", "reality">>,
         <<"pbk", r.pbk>>, <<"fp", r.fp>>, <<"sni", r.sni>>, <<"sid", r.sid>>,
         <<"spx", "%2F">>, <<"flow", "xtls-rprx-vision">> >>,
     fragment |-> label]

\* Lines 258-263: vless://{id}@{host}:{port}/?{query}#{label}, the query as
\* the sequence of its parameters.
vless_link(client_uuid, host, port, r, label) ==
    [scheme |-> "vless", id |-> client_uuid, host |-> host, port |-> port,
     query |->
         << <<"type", "tcp">>, <<"encryption", "none">>,
            <<"security", "reality">> >>
         \o (IF r.pbk # "omitted" THEN << <<"pbk", r.pbk>> >> ELSE << >>)
         \o << <<"fp", r.fp>>, <<"sni", r.sni>>, <<"sid", r.sid>>,
               <<"spx", "%2F">>, <<"flow", "xtls-rprx-vision">> >>,
     fragment |-> label]

\* add_vless_client reading only the status of the addClient response, not
\* the success flag of its body.
add_vless_client_status_only(auth, cfg, clients, uuid, env) ==
    LET lg == ensure_login(auth, cfg, env.login)
        R(a, raised, why, cl, reqs) ==
            [CallResult("add_vless_client", uuid, auth, a, lg.posts, raised,
                        why, clients, cl) EXCEPT !.requests = reqs]
        added == <<"POST addClient">>
        listed == <<"POST addClient", "GET list">>
    IN
    IF lg.raised THEN R(lg.authorized, TRUE, "login_failed", clients, << >>)
    ELSE IF cfg.inbound_id = 0
    THEN R(TRUE, TRUE, "inbound_id_not_set", clients, << >>)
    ELSE IF env.add \in {"http_error", "exception"} THEN R(TRUE, TRUE, "add_failed", clients, added)
    ELSE IF env.list = "error"
    THEN R(TRUE, TRUE, "list_failed", clients \cup {uuid}, listed)
    ELSE IF env.list = "no_inbound"
    THEN R(TRUE, TRUE, "inbound_not_found", clients \cup {uuid}, listed)
    ELSE IF build_link(env.chosen).raised
    THEN R(TRUE, TRUE, "link_failed", clients \cup {uuid}, listed)
    ELSE R(TRUE, FALSE, "created", clients \cup {uuid}, listed)

\* add_vless_client building the link without looking whether the inbound
\* was found in the listing.
add_vless_client_no_lookup_check(auth, cfg, clients, uuid, env) ==
    LET lg == ensure_login(auth, cfg, env.login)
        R(a, raised, why, cl, reqs) ==
            [CallResult("add_vless_client", uuid, auth, a, lg.posts, raised,
                        why, clients, cl) EXCEPT !.requests = reqs]
        added == <<"POST addClient">>
        listed == <<"POST addClient", "GET list">>
    IN
    IF lg.raised THEN R(lg.authorized, TRUE, "login_failed", clients, << >>)
    ELSE IF cfg.inbound_id = 0
    THEN R(TRUE, TRUE, "inbound_id_not_set", clients, << >>)
    ELSE IF env.add # "ok" THEN R(TRUE, TRUE, "add_failed", clients, added)
    ELSE IF env.list = "error"
    THEN R(TRUE, TRUE, "list_failed", clients \cup {uuid}, listed)
    ELSE IF FALSE
    THEN R(TRUE, TRUE, "inbound_not_found", clients \cup {uuid}, listed)
    ELSE IF build_link(env.chosen).raised
    THEN R(TRUE, TRUE, "link_failed", clients \cup {uuid}, listed)
    ELSE R(TRUE, FALSE, "created", clients \cup {uuid}, listed)

\* add_vless_client taking the credential off the panel again when it
\* fails after addClient.
add_vless_client_cleans_up(auth, cfg, clients, uuid, env) ==
    LET lg == ensure_login(auth, cfg, env.login)
        R(a, raised, why, cl, reqs) ==
            [CallResult("add_vless_client", uuid, auth, a, lg.posts, raised,
                        why, clients, cl) EXCEPT !.requests = reqs]
        added == <<"POST addClient">>
        listed == <<"POST addClient", "GET list">>
    IN
    IF lg.raised THEN R(lg.authorized, TRUE, "login_failed", clients, << >>)
    ELSE IF cfg.inbound_id = 0
    THEN R(TRUE, TRUE, "inbound_id_not_set", clients, << >>)
    ELSE IF env.add # "ok" THEN R(TRUE, TRUE, "add_failed", clients, added)
    ELSE IF env.list = "error"
    THEN R(TRUE, TRUE, "list_failed", clients, listed)
    ELSE IF env.list = "no_inbound"
    THEN R(TRUE, TRUE, "inbound_not_found", clients, listed)
    ELSE IF build_link(env.chosen).raised
    THEN R(TRUE, TRUE, "link_failed", clients, listed)
    ELSE R(TRUE, FALSE, "created", clients \cup {uuid}, listed)

\* add_vless_client(...) against a panel that behaves as env says; uuid is
\* the value uuid4() returns.  The client is on the panel from the moment
\* addClient answers 200 with a success body.
add_vless_client(auth, cfg, clients, uuid, env) ==
    LET lg == ensure_login(auth, cfg, env.login)
        R(a, raised, why, cl, reqs) ==
            [CallResult("add_vless_client", uuid, auth, a, lg.posts, raised,
                        why, clients, cl) EXCEPT !.requests = reqs]
        added == <<"POST addClient">>
        listed == <<"POST addClient", "GET list">>
    IN
    IF lg.raised THEN R(lg.authorized, TRUE, "login_failed", clients, << >>)
    ELSE IF cfg.inbound_id = 0
    THEN R(TRUE, TRUE, "inbound_id_not_set", clients, << >>)
    ELSE IF env.add # "ok" THEN R(TRUE, TRUE, "add_failed", clients, added)
    ELSE IF env.list = "error"
    THEN R(TRUE, TRUE, "list_failed", clients \cup {uuid}, listed)
    ELSE IF env.list = "no_inbound"
    THEN R(TRUE, TRUE, "inbound_not_found", clients \cup {uuid}, listed)
    ELSE IF build_link(env.chosen).raised
    THEN R(TRUE, TRUE, "link_failed", clients \cup {uuid}, listed)
    ELSE R(TRUE, FALSE, "created", clients \cup {uuid}, listed)

\* The panel behaviours a call can meet.  The panel answers only the
\* requests a call makes: an answer the call cannot ask for is not drawn.
NoAnswers == [i \in StrategyIdx |-> "http_error"]

LoginAnswers(auth, cfg) ==
    IF auth \/ cfg.api_token \/ ~cfg.creds THEN {"200"} ELSE LoginResponses

DeleteEnvs(auth, cfg, answers) ==
    LET E(lo, li, se, st) == [login : lo, list : li, settings : se, strategy : st]
        bad == LoginAnswers(auth, cfg) \ {"200", "302"}
        ok  == LoginAnswers(auth, cfg) \ bad
    IN  E(bad, {"ok"}, {"object"}, {NoAnswers})
        \cup E(ok, ListResponses \ {"ok"}, {"object"}, {NoAnswers})
        \cup E(ok, {"ok"}, SettingsShapes \ {"object"}, {NoAnswers})
        \cup E(ok, {"ok"}, {"object"}, answers)

\* The listing entries of the configured inbound that the calls are run
\* against: one without transport settings, one with REALITY settings in
\* full, and one whose streamSettings string is not JSON.
PlainInbound ==
    [streamSettings |-> "absent", realitySettings |-> "absent",
     settings |-> "absent", reality |-> NoFields, nested |-> NoFields]

ChosenInbounds ==
    {PlainInbound,
     [PlainInbound EXCEPT
        !.streamSettings = "json_object", !.realitySettings = "object",
        !.settings = "object",
        !.reality = [NoFields EXCEPT !.shortId = "text", !.serverNames = "list"],
        !.nested = [NoFields EXCEPT !.publicKey = "text",
                                    !.fingerprints = "list"]],
     [PlainInbound EXCEPT !.streamSettings = "malformed"]}

AddEnvs(auth, cfg) ==
    LET E(lo, ad, li, ch) == [login : lo, add : ad, list : li, chosen : ch]
        bad == LoginAnswers(auth, cfg) \ {"200", "302"}
        ok  == LoginAnswers(auth, cfg) \ bad
    IN  E(bad, {"ok"}, {"ok"}, {PlainInbound})
        \cup E(ok, StrategyResponses \ {"ok"}, {"ok"}, {PlainInbound})
        \cup E(ok, {"ok"}, ListResponses \ {"ok"}, {PlainInbound})
        \cup E(ok, {"ok"}, {"ok"}, ChosenInbounds)

\* Every way the five update endpoints can answer one call.
AllAnswers == [StrategyIdx -> StrategyResponses]

\* The answers SpecXui draws: the endpoints before the first working one all
\* fail the same way, or all five do.
FailureKinds == StrategyResponses \ {"ok"}

UniformAnswers ==
    { [i \in StrategyIdx |-> IF i < k THEN f ELSE "ok"] :
        k \in StrategyIdx, f \in FailureKinds }
    \cup { [i \in StrategyIdx |-> f] : f \in FailureKinds }

Usable(cfg) == cfg.inbound_id # 0 /\ (cfg.api_token \/ cfg.creds)

NoCall == CallResult("none", 0, FALSE, FALSE, 0, FALSE, "none", {}, {})

NoPanel == [login |-> "200", list |-> "ok", settings |-> "object",
            strategy |-> NoAnswers]

(***************************************************************************)
(*     Database (src/bot/database.py) and SubscriptionService              *)
(*     (src/bot/subscription_service.py)                                   *)
(***************************************************************************)

UserIds == {1, 2}

Threads == {1, 2}

\* SubscriptionPlan.days of the plans on offer, in clock ticks.
PlanDays == {1, 2}

NoUser == 0

NoUserRow == [exists |-> FALSE, balance |-> 0, referrer_id |-> NoUser,
              invited_count |-> 0]

\* writes: the kinds of ledger writes the call has made so far; balance:
\* the balance of the user when the call began.
NoSvcCall == [user |-> NoUser, days |-> 0, client |-> 0, writes |-> {},
              balance |-> 0]

\* Init of the specifications that do not use the bot's tables.
BotIdle ==
    /\ ticks = 0
    /\ servers = << >>
    /\ vpn_keys = {}
    /\ key_seq = 0
    /\ fsm = << >>
    /\ shown = << >>
    /\ invoices = << >>
    /\ last = << >>

\* Init of the specifications that do not use the database.
DbIdle ==
    /\ now = 0
    /\ users = [u \in UserIds |-> NoUserRow]
    /\ subscriptions = << >>
    /\ payments = << >>
    /\ invites = << >>
    /\ pc = [t \in Threads |-> "idle"]
    /\ call = [t \in Threads |-> NoSvcCall]
    /\ BotIdle

\* SELECT ... WHERE user_id = ? AND status = 'active' ORDER BY created_at
\* DESC LIMIT 1: the id of the newest active row of the user, 0 if none.
newest_active(subs, u) ==
    LET ids == {i \in 1..Len(subs) :
                    subs[i].user_id = u /\ subs[i].status = "active"}
    IN  IF ids = {} THEN 0 ELSE CHOOSE i \in ids : \A j \in ids : j <= i

get_user_active_subscription_no_flip(subs, u, t) ==
    LET i == newest_active(subs, u)
    IN  IF i = 0 THEN [row |-> 0, subs |-> subs]
        ELSE IF subs[i].end_date < t THEN [row |-> 0, subs |-> subs]
        ELSE [row |-> i, subs |-> subs]

\* get_user_active_subscription(user_id): the row it returns (0 for None)
\* and the table it leaves: a newest active row past its end date is marked
\* expired and None is returned.
get_user_active_subscription(subs, u, t) ==
    LET i == newest_active(subs, u)
    IN  IF i = 0 THEN [row |-> 0, subs |-> subs]
        ELSE IF subs[i].end_date < t
        THEN [row |-> 0, subs |-> [subs EXCEPT ![i].status = "expired"]]
        ELSE [row |-> i, subs |-> subs]

\* create_subscription storing start_date as end_date.
create_subscription_no_days(u, days, client, t) ==
    [user_id |-> u, status |-> "active", days |-> days, start_date |-> t,
     end_date |-> t, vless_client_id |-> client]

\* create_subscription(user_id, traffic_gb, days, vless_client_id): the row
\* it inserts.
create_subscription(u, days, client, t) ==
    [user_id |-> u, status |-> "active", days |-> days, start_date |-> t,
     end_date |-> t + days, vless_client_id |-> client]

(***************************************************************************)
(* SpecService: create_subscription_for_user called from concurrent        *)
(* threads, one step per database transaction or panel call.               *)
(***************************************************************************)
ServiceInit ==
    /\ xcfg = [api_token |-> FALSE, creds |-> TRUE, inbound_id |-> 1]
    /\ authorized = FALSE
    /\ inbound_clients = {}
    /\ uuid_count = 0
    /\ xres = NoCall
    /\ delete_called = {}
    /\ deleted_logged = {}
    /\ panel = NoPanel
    /\ DbIdle

\* datetime.now() advances.
Tick ==
    /\ now < MaxNow
    /\ now' = now + 1
    /\ UNCHANGED <<xvars, users, subscriptions, payments, invites, pc, call,
                   botvars>>

\* create_subscription_for_user, lines 58-60: the check for an active
\* subscription, lazy expiry included.
SvcCheck(t, u, d) ==
    /\ pc[t] = "idle"
    /\ LET r == get_user_active_subscription(subscriptions, u, now)
       IN  /\ subscriptions' = r.subs
           /\ pc' = [pc EXCEPT ![t] = IF r.row # 0 THEN "rejected" ELSE "provision"]
           /\ call' = [call EXCEPT
                         ![t] = [user |-> u, days |-> d, client |-> 0,
                                 writes |-> IF r.subs # subscriptions
                                            THEN {"expire"} ELSE {},
                                 balance |-> users[u].balance]]
    /\ UNCHANGED <<xvars, now, users, payments, invites,
                   botvars>>

SvcProvision_row_first(t) ==
    /\ pc[t] = "provision"
    /\ uuid_count < MaxUuid
    /\ \E env \in AddEnvs(authorized, xcfg) :
         LET r == add_vless_client(authorized, xcfg, inbound_clients,
                                   uuid_count + 1, env)
         IN  /\ authorized' = r.authorized
             /\ inbound_clients' = r.clients
             /\ uuid_count' = IF r.outcome = "login_failed"
                              THEN uuid_count ELSE uuid_count + 1
             /\ pc' = [pc EXCEPT ![t] = IF r.raised THEN "failed" ELSE "created"]
             /\ call' = [call EXCEPT ![t].client = IF r.raised THEN 0 ELSE r.client,
                                     ![t].writes = @ \cup {"insert"}]
    /\ subscriptions' = Append(subscriptions,
           create_subscription(call[t].user, call[t].days, 0, now))
    /\ UNCHANGED <<xcfg, xres, delete_called, deleted_logged, panel,
                   now, users, payments, invites,
                   botvars>>

\* Lines 63-75: add_vless_client; any exception becomes ValueError.
SvcProvision(t) ==
    /\ pc[t] = "provision"
    /\ uuid_count < MaxUuid
    /\ \E env \in AddEnvs(authorized, xcfg) :
         LET r == add_vless_client(authorized, xcfg, inbound_clients,
                                   uuid_count + 1, env)
         IN  /\ authorized' = r.authorized
             /\ inbound_clients' = r.clients
             /\ uuid_count' = IF r.outcome = "login_failed"
                              THEN uuid_count ELSE uuid_count + 1
             /\ pc' = [pc EXCEPT ![t] = IF r.raised THEN "failed" ELSE "create"]
             /\ call' = [call EXCEPT ![t].client = IF r.raised THEN 0 ELSE r.client]
    /\ UNCHANGED <<xcfg, xres, delete_called, deleted_logged, panel,
                   now, users, subscriptions, payments, invites,
                   botvars>>

\* db.create_subscription reusing the user's newest row, when there is one,
\* in place of the INSERT.
SvcCreate_reuse_row(t) ==
    /\ pc[t] = "create"
    /\ LET mine == {i \in 1..Len(subscriptions) :
                       subscriptions[i].user_id = call[t].user}
           row == create_subscription(call[t].user, call[t].days,
                                      call[t].client, now)
       IN  subscriptions' =
               IF mine = {} THEN Append(subscriptions, row)
               ELSE [subscriptions EXCEPT
                       ![CHOOSE i \in mine : \A j \in mine : j <= i] = row]
    /\ pc' = [pc EXCEPT ![t] = "created"]
    /\ call' = [call EXCEPT ![t].writes = @ \cup {"insert"}]
    /\ UNCHANGED <<xvars, now, users, payments, invites,
                   botvars>>

\* Lines 78-83: db.create_subscription.
SvcCreate(t) ==
    /\ pc[t] = "create"
    /\ subscriptions' = Append(subscriptions,
           create_subscription(call[t].user, call[t].days, call[t].client, now))
    /\ pc' = [pc EXCEPT ![t] = "created"]
    /\ call' = [call EXCEPT ![t].writes = @ \cup {"insert"}]
    /\ UNCHANGED <<xvars, now, users, payments, invites,
                   botvars>>

\* The call has returned or raised; the thread is free for another call.
SvcReturn(t) ==
    /\ pc[t] \in {"rejected", "failed", "created"}
    /\ pc' = [pc EXCEPT ![t] = "idle"]
    /\ call' = [call EXCEPT ![t] = NoSvcCall]
    /\ UNCHANGED <<xvars, now, users, subscriptions, payments, invites,
                   botvars>>

ServiceNext ==
    \/ Tick
    \/ \E t \in Threads, u \in UserIds, d \in PlanDays : SvcCheck(t, u, d)
    \/ \E t \in Threads : SvcProvision(t)
    \/ \E t \in Threads : SvcCreate(t)
    \/ \E t \in Threads : SvcReturn(t)

SpecService == ServiceInit /\ [][ServiceNext]_vars

(***************************************************************************)
(* SpecPurchase: one caller buys plans for a user who has a balance, one   *)
(* create_subscription_for_user call after another.                        *)
(***************************************************************************)
\* The user who buys, and the thread that calls.
Buyer == 1

\* Balances the user can start with.
Balances == {0, PlanPrice, 500}

PurchaseInit ==
    /\ xcfg = [api_token |-> FALSE, creds |-> TRUE, inbound_id |-> 1]
    /\ authorized = FALSE
    /\ inbound_clients = {}
    /\ uuid_count = 0
    /\ xres = NoCall
    /\ delete_called = {}
    /\ deleted_logged = {}
    /\ panel = NoPanel
    /\ now = 0
    /\ \E b \in Balances :
         users = [u \in UserIds |->
                     IF u = Buyer
                     THEN [NoUserRow EXCEPT !.exists = TRUE, !.balance = b]
                     ELSE NoUserRow]
    /\ subscriptions = << >>
    /\ payments = << >>
    /\ invites = << >>
    /\ pc = [t \in Threads |-> "idle"]
    /\ call = [t \in Threads |-> NoSvcCall]
    /\ BotIdle

PurchaseNext ==
    \/ Tick
    \/ \E d \in PlanDays : SvcCheck(Buyer, Buyer, d)
    \/ SvcProvision(Buyer)
    \/ SvcCreate(Buyer)
    \/ SvcReturn(Buyer)

SpecPurchase == PurchaseInit /\ [][PurchaseNext]_vars

(***************************************************************************)
(* SpecLedger: the users and invites operations of Database called from    *)
(* concurrent threads.  Every operation opens its own connection.  sqlite3 *)
(* starts a transaction at the first INSERT / UPDATE and not at a SELECT,  *)
(* so the SELECT of use_invite_code is one step and its three UPDATEs with *)
(* the commit are another.                                                 *)
(***************************************************************************)
InviteCodes == {"a", "b"}

NoInvCall == [code |-> "", user |-> NoUser, row |-> 0, inviter |-> NoUser]

LedgerInit ==
    /\ xcfg = [api_token |-> FALSE, creds |-> TRUE, inbound_id |-> 1]
    /\ authorized = FALSE
    /\ inbound_clients = {}
    /\ uuid_count = 0
    /\ xres = NoCall
    /\ delete_called = {}
    /\ deleted_logged = {}
    /\ panel = NoPanel
    /\ now = 0
    /\ users = [u \in UserIds |-> NoUserRow]
    /\ subscriptions = << >>
    /\ payments = << >>
    /\ invites = << >>
    /\ pc = [t \in Threads |-> "idle"]
    /\ call = [t \in Threads |-> NoInvCall]
    /\ BotIdle

\* UPDATE users SET invited_count = invited_count + 1 WHERE user_id = ref:
\* touches no row when ref has none.
increment_invited(us, ref) ==
    IF ref \in UserIds /\ us[ref].exists
    THEN [us EXCEPT ![ref].invited_count = @ + 1]
    ELSE us

\* get_or_create_user(user_id, referrer_id = ref): an existing row is left
\* as it is; a new row is inserted with the referrer given, whose
\* invited_count is then incremented.
GetOrCreateUser(u, ref) ==
    /\ ~users[u].exists
    /\ users' = increment_invited(
                    [users EXCEPT ![u] = [exists |-> TRUE, balance |-> 0,
                                          referrer_id |-> ref,
                                          invited_count |-> 0]], ref)
    /\ UNCHANGED <<xvars, now, subscriptions, payments, invites, pc, call,
                   botvars>>

\* create_invite_code(inviter_id, invite_code): INSERT; invite_code is
\* UNIQUE, a second row with the code is refused.  writes counts the
\* UPDATEs that set used_by.
CreateInviteCode(inviter, code) ==
    /\ \A i \in 1..Len(invites) : invites[i].invite_code # code
    /\ invites' = Append(invites, [inviter_id |-> inviter, invite_code |-> code,
                                   used_by |-> NoUser, writes |-> 0])
    /\ UNCHANGED <<xvars, now, users, subscriptions, payments, pc, call,
                   botvars>>

\* use_invite_code, lines 387-394: SELECT the row of the code with used_by
\* IS NULL; return False when there is none.
InvSelect(t, code, u) ==
    /\ pc[t] = "idle"
    /\ LET rows == {i \in 1..Len(invites) :
                       invites[i].invite_code = code /\ invites[i].used_by = NoUser}
       IN  IF rows = {}
           THEN /\ pc' = [pc EXCEPT ![t] = "False"]
                /\ call' = [call EXCEPT ![t] = [code |-> code, user |-> u,
                                                row |-> 0, inviter |-> NoUser]]
           ELSE LET i == CHOOSE i \in rows : TRUE
                IN  /\ pc' = [pc EXCEPT ![t] = "selected"]
                    /\ call' = [call EXCEPT
                                  ![t] = [code |-> code, user |-> u, row |-> i,
                                          inviter |-> invites[i].inviter_id]]
    /\ UNCHANGED <<xvars, now, users, subscriptions, payments, invites,
                   botvars>>

\* use_invite_code with UPDATE users SET referrer_id = ? WHERE user_id = ?,
\* without AND referrer_id IS NULL.
InvWrite_any_referrer(t) ==
    /\ pc[t] = "selected"
    /\ invites' = [invites EXCEPT ![call[t].row].used_by = call[t].user,
                                  ![call[t].row].writes = @ + 1]
    /\ LET u == call[t].user
           referred == IF users[u].exists
                       THEN [users EXCEPT ![u].referrer_id = call[t].inviter]
                       ELSE users
       IN  users' = increment_invited(referred, call[t].inviter)
    /\ pc' = [pc EXCEPT ![t] = "True"]
    /\ UNCHANGED <<xvars, now, subscriptions, payments, call,
                   botvars>>

\* use_invite_code, lines 396-414, and the commit of get_connection: mark
\* the row selected as used, set the user's referrer if it has none,
\* increment the inviter's invited_count, return True.
InvWrite(t) ==
    /\ pc[t] = "selected"
    /\ invites' = [invites EXCEPT ![call[t].row].used_by = call[t].user,
                                  ![call[t].row].writes = @ + 1]
    /\ LET u == call[t].user
           referred == IF users[u].exists /\ users[u].referrer_id = NoUser
                       THEN [users EXCEPT ![u].referrer_id = call[t].inviter]
                       ELSE users
       IN  users' = increment_invited(referred, call[t].inviter)
    /\ pc' = [pc EXCEPT ![t] = "True"]
    /\ UNCHANGED <<xvars, now, subscriptions, payments, call,
                   botvars>>

\* use_invite_code has returned; the thread is free for another call.
InvReturn(t) ==
    /\ pc[t] \in {"True", "False"}
    /\ pc' = [pc EXCEPT ![t] = "idle"]
    /\ call' = [call EXCEPT ![t] = NoInvCall]
    /\ UNCHANGED <<xvars, now, users, subscriptions, payments, invites,
                   botvars>>

LedgerNext ==
    \/ \E u \in UserIds, ref \in UserIds \cup {NoUser} : GetOrCreateUser(u, ref)
    \/ \E u \in UserIds, c \in InviteCodes : CreateInviteCode(u, c)
    \/ \E t \in Threads, c \in InviteCodes, u \in UserIds : InvSelect(t, c, u)
    \/ \E t \in Threads : InvWrite(t)
    \/ \E t \in Threads : InvReturn(t)

SpecLedger == LedgerInit /\ [][LedgerNext]_vars

(***************************************************************************)
(* SpecInvite: use_invite_code statement by statement, on two threads.     *)
(* The first UPDATE of a connection opens its transaction and takes the    *)
(* write lock of the database file; what the connection has written is     *)
(* kept in the tx field of the call until get_connection commits or rolls  *)
(* back.  Any statement, and the commit, may raise (database is locked,    *)
(* I/O error).                                                             *)
(***************************************************************************)

\* get_connection committing in every case.
get_connection_commit_always(committed, pending, raised) ==
    pending

\* get_connection, lines 99-107, leaving the with block: what the database
\* holds afterwards.  commit when the block ended normally, rollback when
\* it raised; a commit that raises is rolled back as well.
get_connection(committed, pending, raised) ==
    IF raised THEN committed ELSE pending

\* The call of thread t with its uncommitted writes.
WithTx(c, us, inv) ==
    [code |-> c.code, user |-> c.user, row |-> c.row, inviter |-> c.inviter,
     tx |-> [users |-> us, invites |-> inv]]

\* Both users are registered, user 2 by itself or through user 1, and each
\* holds one unused invite code.
InviteInit ==
    /\ xcfg = [api_token |-> FALSE, creds |-> TRUE, inbound_id |-> 1]
    /\ authorized = FALSE
    /\ inbound_clients = {}
    /\ uuid_count = 0
    /\ xres = NoCall
    /\ delete_called = {}
    /\ deleted_logged = {}
    /\ panel = NoPanel
    /\ now = 0
    /\ \E ref \in {NoUser, 1} :
         users = [u \in UserIds |->
                    [exists |-> TRUE, balance |-> 0,
                     referrer_id |-> IF u = 2 THEN ref ELSE NoUser,
                     invited_count |-> IF u = 1 /\ ref = 1 THEN 1 ELSE 0]]
    /\ subscriptions = << >>
    /\ payments = << >>
    /\ invites = << [inviter_id |-> 1, invite_code |-> "a", used_by |-> NoUser,
                      writes |-> 0],
                    [inviter_id |-> 2, invite_code |-> "b", used_by |-> NoUser,
                      writes |-> 0] >>
    /\ pc = [t \in Threads |-> "idle"]
    /\ call = [t \in Threads |-> NoInvCall]
    /\ BotIdle

InTx(t) == pc[t] \in {"marked", "referred", "counted"}

\* Lines 397-400: UPDATE invites SET used_by, used_at.  The statement waits
\* for the write lock while another connection holds it.
TxMark(t) ==
    /\ pc[t] = "selected"
    /\ \A o \in Threads : ~InTx(o)
    /\ call' = [call EXCEPT ![t] =
                  WithTx(call[t], users,
                         [invites EXCEPT ![call[t].row].used_by = call[t].user,
                                         ![call[t].row].writes = @ + 1])]
    /\ pc' = [pc EXCEPT ![t] = "marked"]
    /\ UNCHANGED <<xvars, now, users, subscriptions, payments, invites,
                   botvars>>

\* Lines 402-406: UPDATE users SET referrer_id = ? WHERE user_id = ? AND
\* referrer_id IS NULL.
TxRefer(t) ==
    /\ pc[t] = "marked"
    /\ LET u == call[t].user
           us == call[t].tx.users
       IN  call' = [call EXCEPT ![t].tx.users =
                      IF us[u].exists /\ us[u].referrer_id = NoUser
                      THEN [us EXCEPT ![u].referrer_id = call[t].inviter]
                      ELSE us]
    /\ pc' = [pc EXCEPT ![t] = "referred"]
    /\ UNCHANGED <<xvars, now, users, subscriptions, payments, invites,
                   botvars>>

\* Lines 408-412: UPDATE users SET invited_count = invited_count + 1.
TxCount(t) ==
    /\ pc[t] = "referred"
    /\ call' = [call EXCEPT ![t].tx.users =
                  increment_invited(@, call[t].inviter)]
    /\ pc' = [pc EXCEPT ![t] = "counted"]
    /\ UNCHANGED <<xvars, now, users, subscriptions, payments, invites,
                   botvars>>

\* Line 414 and get_connection line 101: return True, commit.
TxCommit(t) ==
    /\ pc[t] = "counted"
    /\ users' = get_connection(users, call[t].tx.users, FALSE)
    /\ invites' = get_connection(invites, call[t].tx.invites, FALSE)
    /\ pc' = [pc EXCEPT ![t] = "True"]
    /\ UNCHANGED <<xvars, now, subscriptions, payments, call, botvars>>

\* A statement of the block, or the commit, raises: get_connection lines
\* 102-105 roll back and raise again.
TxRaise(t) ==
    /\ pc[t] \in {"selected", "marked", "referred", "counted"}
    /\ users' = IF InTx(t) THEN get_connection(users, call[t].tx.users, TRUE)
                ELSE users
    /\ invites' = IF InTx(t)
                  THEN get_connection(invites, call[t].tx.invites, TRUE)
                  ELSE invites
    /\ pc' = [pc EXCEPT ![t] = "raised"]
    /\ UNCHANGED <<xvars, now, subscriptions, payments, call, botvars>>

\* use_invite_code has returned or raised; the thread may call again.
TxReturn(t) ==
    /\ pc[t] \in {"True", "False", "raised"}
    /\ pc' = [pc EXCEPT ![t] = "idle"]
    /\ call' = [call EXCEPT ![t] = NoInvCall]
    /\ UNCHANGED <<xvars, now, users, subscriptions, payments, invites,
                   botvars>>

InviteNext ==
    \/ \E t \in Threads, c \in InviteCodes, u \in UserIds : InvSelect(t, c, u)
    \/ \E t \in Threads : TxMark(t)
    \/ \E t \in Threads : TxRefer(t)
    \/ \E t \in Threads : TxCount(t)
    \/ \E t \in Threads : TxCommit(t)
    \/ \E t \in Threads : TxRaise(t)
    \/ \E t \in Threads : TxReturn(t)

SpecInvite == InviteInit /\ [][InviteNext]_vars

(***************************************************************************)
(*                        The bot  (src/bot/main.py)                       *)
(***************************************************************************)

Customers == {1}

ServerIds == {1}

KeyIds == 1..MaxKeys

\* SUBSCRIPTION_PLANS and RENEWAL_PLANS: plan id -> duration in months.
SUBSCRIPTION_PLANS == [p \in {"1_month"} |-> 1]

RENEWAL_PLANS == [p \in {"1_month_renew"} |-> 1]

PlanIds == DOMAIN SUBSCRIPTION_PLANS \cup DOMAIN RENEWAL_PLANS

\* The days DATE(subscription_end, '+1 months') can add.
MonthLengths == {28, 31}

\* The days by which the date changes between two updates.
DaySteps == {1, 30}

\* A NULL subscription_end; dates are day numbers from 1.
NoDate == 0

NoBotUser == [exists |-> FALSE, pay_subscribed |-> 0, subscription_end |-> NoDate,
              renewal_used |-> 0]

\* FSMContext after state.clear(): no state, no data.
NoFsm == [state |-> "none", plan |-> "", server |-> 0, key_to_replace |-> 0]

\* last: how a key handler ended, the number of keys the user had once the
\* new row was committed, and whether the delete_client call it made
\* returned or raised.  After the expiry sweep: "swept", with the number of
\* rows it changed in place of the number of keys.
NoLast == [outcome |-> "none", peak |-> 0, revoke |-> "none"]

Ended(outcome, peak, revoke) ==
    [outcome |-> outcome, peak |-> peak, revoke |-> revoke]

\* The XUIClient the key handlers build from a servers row.
ServerCfg == [api_token |-> FALSE, creds |-> TRUE, inbound_id |-> 1]

\* The update endpoints of a panel all work or all fail.
PanelAnswers == {[i \in StrategyIdx |-> "ok"], NoAnswers}

get_active_servers(sv) == {s \in ServerIds : sv[s] = "active"}

\* check_user_subscription: pay_subscribed = 1 and the midnight that starts
\* subscription_end is not before now, a moment inside day t.
check_user_subscription(us, u, t) ==
    /\ us[u].exists
    /\ us[u].pay_subscribed = 1
    /\ us[u].subscription_end # NoDate
    /\ us[u].subscription_end > t

get_user_keys_count(keys, u) == Cardinality({k \in keys : k.user_id = u})

get_key_by_id(keys, id, u) == {k \in keys : k.id = id /\ k.user_id = u}

\* select_plan's query: pay_subscribed = 1 AND subscription_end >= DATE('now').
active_sub(us, u, t) ==
    /\ us[u].exists
    /\ us[u].pay_subscribed = 1
    /\ us[u].subscription_end # NoDate
    /\ us[u].subscription_end >= t

\* _build_subscription_message: the FSM it leaves.
open_premium(f, us, u, t) ==
    IF active_sub(us, u, t) /\ us[u].subscription_end - t > RenewalWindow
    THEN NoFsm
    ELSE [f EXCEPT !.state = "CHOOSING_PLAN"]

\* What delete_client can come to when a key handler calls it for
\* credential cid of a server: the panel holds the credential or has lost
\* it, and answers as it likes.
revoke_outcomes(cid) ==
    {IF delete_client(FALSE, ServerCfg, held, cid, env).raised
     THEN "raised" ELSE "returned" :
        held \in {{cid}, {}}, env \in DeleteEnvs(FALSE, ServerCfg, PanelAnswers)}

\* What add_vless_client can come to when a key handler calls it: the panel
\* answers as it likes.  uuid4() values are distinct; the credential made
\* for key row n is called n.
provision_outcomes(cid) ==
    {IF add_vless_client(FALSE, ServerCfg, {}, cid, env).raised
     THEN "raised" ELSE "returned" :
        env \in AddEnvs(FALSE, ServerCfg)}

(***************************************************************************)
(* Spec: the handlers of the bot, one action per handler.                  *)
(***************************************************************************)
Init ==
    /\ xcfg = ServerCfg
    /\ authorized = FALSE
    /\ inbound_clients = {}
    /\ uuid_count = 0
    /\ xres = NoCall
    /\ delete_called = {}
    /\ deleted_logged = {}
    /\ panel = NoPanel
    /\ now = 1
    /\ users = [u \in Customers |-> NoBotUser]
    /\ subscriptions = << >>
    /\ payments = << >>
    /\ invites = << >>
    /\ pc = << >>
    /\ call = << >>
    /\ ticks = 0
    /\ servers = [s \in ServerIds |-> "absent"]
    /\ vpn_keys = {}
    /\ key_seq = 0
    /\ fsm = [u \in Customers |-> NoFsm]
    /\ shown = [u \in Customers |-> {}]
    /\ invoices = [u \in Customers |-> {}]
    /\ last = NoLast

\* What no handler of the bot touches.
Rest == <<xvars, subscriptions, invites, pc, call>>

\* The date changes.
DayPasses(d) ==
    /\ ticks < MaxTicks
    /\ ticks' = ticks + 1
    /\ now' = now + d
    /\ last' = NoLast
    /\ UNCHANGED <<Rest, users, payments, servers, vpn_keys, key_seq, fsm, shown, invoices>>

\* The rows the expiry sweep changes: subscriptions that are on and whose
\* end date is before today.
overdue(us, t) ==
    {u \in DOMAIN us : /\ us[u].pay_subscribed = 1
                       /\ us[u].subscription_end # NoDate
                       /\ us[u].subscription_end < t}

check_expired_subscriptions_keep_flag(us, t) ==
    [u \in DOMAIN us |->
        IF u \in overdue(us, t) THEN [us[u] EXCEPT !.pay_subscribed = 0]
        ELSE us[u]]

\* check_expired_subscriptions, the job daily_scheduler runs every day: the
\* subscription of every such row is switched off and its renewal_used
\* flag cleared.
check_expired_subscriptions(us, t) ==
    [u \in DOMAIN us |->
        IF u \in overdue(us, t)
        THEN [us[u] EXCEPT !.pay_subscribed = 0, !.renewal_used = 0]
        ELSE us[u]]

\* daily_scheduler's job runs.
CheckExpiredSubscriptions ==
    /\ users' = check_expired_subscriptions(users, now)
    /\ last' = Ended("swept", Cardinality(overdue(users, now)), "none")
    /\ UNCHANGED <<Rest, now, ticks, payments, servers, vpn_keys,
                   key_seq, fsm, shown, invoices>>

\* handle_start of a user without a row: the row is inserted; with the
\* referral code of a user of the bot (one outside Customers, whose own row
\* is not modelled) the new user is given a subscription of three days.
HandleStart(u, referred) ==
    /\ ~users[u].exists
    /\ users' = [users EXCEPT
                   ![u].exists = TRUE,
                   ![u].pay_subscribed = IF referred THEN 1 ELSE @,
                   ![u].subscription_end =
                       IF referred THEN now + InviteeDays ELSE @]
    /\ last' = NoLast
    /\ UNCHANGED <<Rest, now, ticks, payments, servers, vpn_keys,
                   key_seq, fsm, shown, invoices>>

\* process_server_confirmation: the admin adds a server, active.
AddServer(s) ==
    /\ servers[s] = "absent"
    /\ servers' = [servers EXCEPT ![s] = "active"]
    /\ last' = NoLast
    /\ UNCHANGED <<Rest, now, ticks, users, payments, vpn_keys,
                   key_seq, fsm, shown, invoices>>

\* cmd_toggle_server.
ToggleServer(s) ==
    /\ servers[s] # "absent"
    /\ servers' = [servers EXCEPT
                     ![s] = IF @ = "active" THEN "inactive" ELSE "active"]
    /\ last' = NoLast
    /\ UNCHANGED <<Rest, now, ticks, users, payments, vpn_keys,
                   key_seq, fsm, shown, invoices>>

\* cmd_delete_server: refused only when a users row names the server, and
\* no statement of the bot sets users.server_id.
DeleteServer(s) ==
    /\ servers[s] # "absent"
    /\ servers' = [servers EXCEPT ![s] = "absent"]
    /\ last' = NoLast
    /\ UNCHANGED <<Rest, now, ticks, users, payments, vpn_keys,
                   key_seq, fsm, shown, invoices>>

\* handle_open_premium_callback / handle_prem_command.
OpenPremium(u) ==
    /\ fsm' = [fsm EXCEPT ![u] = open_premium(@, users, u, now)]
    /\ last' = NoLast
    /\ UNCHANGED <<Rest, now, ticks, users, payments, servers,
                   vpn_keys, key_seq, shown, invoices>>

\* select_plan: a new plan is refused while a subscription is active, a
\* renewal without one or more than three days before its end; both
\* refusals redraw the premium menu.
SelectPlan(u, plan) ==
    /\ fsm[u].state = "CHOOSING_PLAN"
    /\ LET renewal == plan \in DOMAIN RENEWAL_PLANS
           active == active_sub(users, u, now)
           refused ==
               \/ ~renewal /\ active
               \/ renewal /\ ~active
               \/ renewal /\ users[u].subscription_end - now - 1 > RenewalWindow
           chosen == [fsm[u] EXCEPT !.plan = plan]
       IN  fsm' = [fsm EXCEPT
                     ![u] = IF refused THEN open_premium(@, users, u, now)
                            ELSE IF get_active_servers(servers) = {} THEN chosen
                            ELSE [chosen EXCEPT !.state = "CHOOSING_SERVER"]]
    /\ last' = NoLast
    /\ UNCHANGED <<Rest, now, ticks, users, payments, servers,
                   vpn_keys, key_seq, shown, invoices>>

\* select_server: an active server is taken into the FSM data.
SelectServer(u, s) ==
    /\ fsm[u].state = "CHOOSING_SERVER"
    /\ servers[s] = "active"
    /\ fsm' = [fsm EXCEPT ![u].server = s,
                          ![u].state = "CHOOSING_PAYMENT_METHOD"]
    /\ last' = NoLast
    /\ UNCHANGED <<Rest, now, ticks, users, payments, servers,
                   vpn_keys, key_seq, shown, invoices>>

\* process_payment: the invoice for the plan and server of the FSM data.
ProcessPayment(u) ==
    /\ fsm[u].state = "CHOOSING_PAYMENT_METHOD"
    /\ fsm[u].plan # ""
    /\ fsm[u].server # 0
    /\ invoices' = [invoices EXCEPT ![u] = @ \cup {<<fsm[u].plan, fsm[u].server>>}]
    /\ last' = NoLast
    /\ UNCHANGED <<Rest, now, ticks, users, payments, servers,
                   vpn_keys, key_seq, fsm, shown>>

\* process_successful_payment: the user paid an invoice.  Unknown server or
\* user: nothing is written.  Otherwise the subscription is set or extended
\* and the payment is inserted as completed; no key is created.
ProcessSuccessfulPayment(u, plan, s) ==
    /\ <<plan, s>> \in invoices[u]
    /\ Len(payments) < MaxPayments
    /\ invoices' = [invoices EXCEPT ![u] = @ \ {<<plan, s>>}]
    /\ IF servers[s] = "absent" \/ ~users[u].exists
       THEN UNCHANGED <<users, payments>>
       ELSE /\ payments' = Append(payments, [user_id |-> u, plan_id |-> plan,
                                             status |-> "completed"])
            /\ IF plan \in DOMAIN SUBSCRIPTION_PLANS
               THEN users' = [users EXCEPT
                       ![u].pay_subscribed = 1,
                       ![u].subscription_end =
                           now + SUBSCRIPTION_PLANS[plan] * DaysPerMonth,
                       ![u].renewal_used = 0]
               ELSE \E m \in MonthLengths :
                     users' = [users EXCEPT
                       ![u].subscription_end =
                           IF @ = NoDate THEN NoDate
                           ELSE @ + RENEWAL_PLANS[plan] * m,
                       ![u].renewal_used = 1]
    /\ last' = NoLast
    /\ UNCHANGED <<Rest, now, ticks, servers, vpn_keys, key_seq, fsm, shown>>

\* handle_create_key: with a subscription, fewer than three keys and an
\* active server, the user is shown one key_server button per active server.
\* A button once sent stays pressable: several messages can carry it, and
\* the taps made before a handler redraws its message are all delivered.
HandleCreateKey(u) ==
    /\ check_user_subscription(users, u, now)
    /\ get_user_keys_count(vpn_keys, u) < KeysLimit
    /\ get_active_servers(servers) # {}
    /\ shown' = [shown EXCEPT
                   ![u] = @ \cup {<<"key_server", s, 0>> :
                                      s \in get_active_servers(servers)}]
    /\ last' = NoLast
    /\ UNCHANGED <<Rest, now, ticks, users, payments, servers,
                   vpn_keys, key_seq, fsm, invoices>>

\* handle_replace_key: for a key of the user, key_to_replace is put into
\* the FSM data and one replace_key_server button per active server shown.
HandleReplaceKey(u, k) ==
    /\ get_key_by_id(vpn_keys, k, u) # {}
    /\ fsm' = [fsm EXCEPT ![u].key_to_replace = k]
    /\ shown' = [shown EXCEPT
                   ![u] = @ \cup {<<"replace_key_server", s, k>> :
                                      s \in get_active_servers(servers)}]
    /\ last' = NoLast
    /\ UNCHANGED <<Rest, now, ticks, users, payments, servers,
                   vpn_keys, key_seq, invoices>>

\* The body of handle_key_server_selection for server s with key_to_replace
\* = old (0: none).  Refused without the server, without a subscription end
\* or with days_valid <= 0.  Otherwise add_vless_client; when it raises
\* nothing is written.  Otherwise the key row is inserted and committed;
\* then, if old is still a key of the user, its row is deleted and
\* delete_client tried on its server.  The FSM is cleared on every path.
KeyServerSelection(u, s, old) ==
    /\ fsm' = [fsm EXCEPT ![u] = NoFsm]
    /\ IF \/ servers[s] = "absent"
          \/ ~users[u].exists
          \/ users[u].subscription_end = NoDate
          \/ users[u].subscription_end - now - 1 <= 0
       THEN /\ last' = Ended("refused", 0, "none")
            /\ UNCHANGED <<vpn_keys, key_seq>>
       ELSE /\ \E added \in provision_outcomes(key_seq + 1) :
              LET row == [id |-> key_seq + 1, user_id |-> u, server_id |-> s,
                          vless_client_id |-> key_seq + 1]
                  inserted == vpn_keys \cup {row}
                  olds == IF old = 0 THEN {} ELSE get_key_by_id(inserted, old, u)
                  peak == get_user_keys_count(inserted, u)
                  done == IF old = 0 THEN "created" ELSE "replaced"
              IN  IF added = "raised"
                  THEN /\ last' = Ended("error", 0, "none")
                       /\ UNCHANGED <<vpn_keys, key_seq>>
                  ELSE /\ key_seq' = key_seq + 1
                       /\ vpn_keys' = inserted \ olds
                       /\ IF olds = {}
                          THEN last' = Ended(done, peak, "none")
                          ELSE \E o \in olds :
                                 IF servers[o.server_id] = "absent"
                                 THEN last' = Ended(done, peak, "none")
                                 ELSE \E r \in revoke_outcomes(o.vless_client_id) :
                                        last' = Ended(done, peak, r)
    /\ UNCHANGED <<Rest, now, ticks, users, payments, servers, shown, invoices>>

\* handle_key_server_selection: a key_server button is pressed;
\* key_to_replace is what the FSM data holds.
HandleKeyServerSelection(u, s) ==
    /\ <<"key_server", s, 0>> \in shown[u]
    /\ KeyServerSelection(u, s, fsm[u].key_to_replace)

\* handle_replace_key_server: a replace_key_server button is pressed; its
\* key id becomes key_to_replace.
HandleReplaceKeyServer(u, s, k) ==
    /\ <<"replace_key_server", s, k>> \in shown[u]
    /\ KeyServerSelection(u, s, k)

\* handle_confirm_delete without the except clause: when delete_client
\* raises the handler ends there and the row stays.
HandleConfirmDelete_stop_on_error(u, k) ==
    /\ IF get_key_by_id(vpn_keys, k, u) = {}
       THEN /\ last' = Ended("not_found", 0, "none")
            /\ UNCHANGED vpn_keys
       ELSE \E o \in get_key_by_id(vpn_keys, k, u) :
              IF servers[o.server_id] = "absent"
              THEN /\ vpn_keys' = vpn_keys \ {o}
                   /\ last' = Ended("deleted", 0, "none")
              ELSE \E r \in revoke_outcomes(o.vless_client_id) :
                     /\ vpn_keys' = IF r = "raised" THEN vpn_keys
                                    ELSE vpn_keys \ {o}
                     /\ last' = Ended("deleted", 0, r)
    /\ fsm' = [fsm EXCEPT ![u] = NoFsm]
    /\ UNCHANGED <<Rest, now, ticks, users, payments, servers, key_seq, shown,
                   invoices>>

\* handle_confirm_delete: a key that is not the user's is reported not
\* found.  For a key of the user, delete_client is tried on its server and
\* the row deleted whatever came of it.  The FSM is cleared on both paths.
HandleConfirmDelete(u, k) ==
    /\ IF get_key_by_id(vpn_keys, k, u) = {}
       THEN /\ last' = Ended("not_found", 0, "none")
            /\ UNCHANGED vpn_keys
       ELSE \E o \in get_key_by_id(vpn_keys, k, u) :
              /\ vpn_keys' = vpn_keys \ {o}
              /\ IF servers[o.server_id] = "absent"
                 THEN last' = Ended("deleted", 0, "none")
                 ELSE \E r \in revoke_outcomes(o.vless_client_id) :
                        last' = Ended("deleted", 0, r)
    /\ fsm' = [fsm EXCEPT ![u] = NoFsm]
    /\ UNCHANGED <<Rest, now, ticks, users, payments, servers, key_seq, shown,
                   invoices>>

Next ==
    \/ \E d \in DaySteps : DayPasses(d)
    \/ CheckExpiredSubscriptions
    \/ \E u \in Customers, r \in BOOLEAN : HandleStart(u, r)
    \/ \E s \in ServerIds : AddServer(s)
    \/ \E s \in ServerIds : ToggleServer(s)
    \/ \E s \in ServerIds : DeleteServer(s)
    \/ \E u \in Customers : OpenPremium(u)
    \/ \E u \in Customers, p \in PlanIds : SelectPlan(u, p)
    \/ \E u \in Customers, s \in ServerIds : SelectServer(u, s)
    \/ \E u \in Customers : ProcessPayment(u)
    \/ \E u \in Customers, p \in PlanIds, s \in ServerIds :
           ProcessSuccessfulPayment(u, p, s)
    \/ \E u \in Customers : HandleCreateKey(u)
    \/ \E u \in Customers, k \in KeyIds : HandleReplaceKey(u, k)
    \/ \E u \in Customers, s \in ServerIds :
           key_seq < MaxIssued /\ HandleKeyServerSelection(u, s)
    \/ \E u \in Customers, s \in ServerIds, k \in KeyIds :
           key_seq < MaxIssued /\ HandleReplaceKeyServer(u, s, k)
    \/ \E u \in Customers, k \in KeyIds : HandleConfirmDelete(u, k)

Spec == Init /\ [][Next]_vars

(***************************************************************************)
(* SpecKeys: the handlers of the bot a user buys a first subscription and  *)
(* manages keys with, on a day that does not end and with servers that     *)
(* stay; more keys are issued than in Spec.                                *)
(***************************************************************************)
KeysNext ==
    \/ \E u \in Customers, r \in BOOLEAN : HandleStart(u, r)
    \/ \E s \in ServerIds : AddServer(s)
    \/ \E u \in Customers : OpenPremium(u)
    \/ \E u \in Customers, p \in DOMAIN SUBSCRIPTION_PLANS : SelectPlan(u, p)
    \/ \E u \in Customers, s \in ServerIds : SelectServer(u, s)
    \/ \E u \in Customers : ProcessPayment(u)
    \/ \E u \in Customers, p \in DOMAIN SUBSCRIPTION_PLANS, s \in ServerIds :
           ProcessSuccessfulPayment(u, p, s)
    \/ \E u \in Customers : HandleCreateKey(u)
    \/ \E u \in Customers, k \in KeyIds : HandleReplaceKey(u, k)
    \/ \E u \in Customers, s \in ServerIds :
           key_seq < MaxKeys /\ HandleKeyServerSelection(u, s)
    \/ \E u \in Customers, s \in ServerIds, k \in KeyIds :
           key_seq < MaxKeys /\ HandleReplaceKeyServer(u, s, k)
    \/ \E u \in Customers, k \in KeyIds : HandleConfirmDelete(u, k)

SpecKeys == Init /\ [][KeysNext]_vars

(***************************************************************************)
(* SpecSweep: the expiry sweep applied to every users table of two rows,   *)
(* on every day, and again as days pass.                                   *)
(***************************************************************************)
SweepUsers == {1, 2}

\* The users rows the bot's handlers can leave: a subscription that is on
\* has an end date.
SweepRows ==
    {r \in [exists : {TRUE}, pay_subscribed : {0, 1},
            subscription_end : {NoDate} \cup (1..MaxDate), renewal_used : {0, 1}] :
        r.pay_subscribed = 1 => r.subscription_end # NoDate}

SweepInit ==
    /\ xcfg = ServerCfg
    /\ authorized = FALSE
    /\ inbound_clients = {}
    /\ uuid_count = 0
    /\ xres = NoCall
    /\ delete_called = {}
    /\ deleted_logged = {}
    /\ panel = NoPanel
    /\ now \in 1..MaxDate
    /\ users \in [SweepUsers -> SweepRows]
    /\ subscriptions = << >>
    /\ payments = << >>
    /\ invites = << >>
    /\ pc = << >>
    /\ call = << >>
    /\ ticks = 0
    /\ servers = [s \in ServerIds |-> "absent"]
    /\ vpn_keys = {}
    /\ key_seq = 0
    /\ fsm = [u \in Customers |-> NoFsm]
    /\ shown = [u \in Customers |-> {}]
    /\ invoices = [u \in Customers |-> {}]
    /\ last = NoLast

SweepNext ==
    \/ CheckExpiredSubscriptions
    \/ \E d \in DaySteps : DayPasses(d)

SpecSweep == SweepInit /\ [][SweepNext]_vars

(***************************************************************************)
(* SpecXui: one XUIClient session over a sequence of calls.                *)
(***************************************************************************)
XuiInit ==
    /\ xcfg \in XuiConfigs
    /\ authorized = FALSE
    /\ inbound_clients = {}
    /\ uuid_count = 0
    /\ xres = NoCall
    /\ delete_called = {}
    /\ deleted_logged = {}
    /\ panel = NoPanel
    /\ DbIdle

\* A caller provisions a credential.  uuid4() is drawn once login is through.
AddVlessClient ==
    /\ uuid_count < MaxUuid
    /\ \E env \in AddEnvs(authorized, xcfg) :
         LET r == add_vless_client(authorized, xcfg, inbound_clients,
                                   uuid_count + 1, env)
         IN  /\ xres' = r
             /\ authorized' = r.authorized
             /\ inbound_clients' = r.clients
             /\ uuid_count' = IF r.outcome = "login_failed"
                              THEN uuid_count ELSE uuid_count + 1
    /\ UNCHANGED <<xcfg, delete_called, deleted_logged, panel, dbvars, botvars>>

\* The bookkeeping of a delete_client call that did r.
Revoked(cid, r) ==
    /\ xres' = [r EXCEPT !.repeated = cid \in delete_called,
                         !.relogged = /\ r.outcome = "deleted"
                                      /\ cid \in deleted_logged]
    /\ authorized' = r.authorized
    /\ inbound_clients' = r.clients
    /\ deleted_logged' = IF r.outcome = "deleted"
                         THEN deleted_logged \cup {cid} ELSE deleted_logged
    /\ delete_called' = delete_called \cup {cid}

\* A caller revokes credential cid (any id, provisioned or not).
DeleteClient(cid) ==
    /\ \E env \in DeleteEnvs(authorized, xcfg,
                             IF cid \in inbound_clients THEN UniformAnswers
                             ELSE {NoAnswers}) :
         Revoked(cid, delete_client(authorized, xcfg, inbound_clients, cid, env))
    /\ UNCHANGED <<xcfg, uuid_count, panel, dbvars, botvars>>

XuiNext ==
    \/ AddVlessClient
    \/ \E cid \in ClientIds : DeleteClient(cid)

SpecXui == XuiInit /\ [][XuiNext]_vars

(***************************************************************************)
(* SpecRevoke: delete_client applied once to every input: every            *)
(* configuration, every client list of the inbound, every credential id    *)
(* and every combination of panel answers.                                 *)
(***************************************************************************)
RevokeInit ==
    /\ xcfg \in XuiConfigs
    /\ authorized \in {a \in BOOLEAN : a => (xcfg.api_token \/ xcfg.creds)}
    /\ inbound_clients \in SUBSET ClientIds
    /\ uuid_count = MaxUuid
    /\ xres = NoCall
    /\ delete_called = {}
    /\ deleted_logged = {}
    /\ panel \in DeleteEnvs(authorized, xcfg,
                            IF Usable(xcfg) THEN AllAnswers ELSE {NoAnswers})
    /\ DbIdle

Revoke(cid) ==
    /\ xres.op = "none"
    /\ Revoked(cid, delete_client(authorized, xcfg, inbound_clients, cid, panel))
    /\ UNCHANGED <<xcfg, uuid_count, panel, dbvars, botvars>>

RevokeNext == \E cid \in ClientIds : Revoke(cid)

SpecRevoke == RevokeInit /\ [][RevokeNext]_vars

(***************************************************************************)
(* SpecAdd: add_vless_client applied once to every configuration, every    *)
(* client list of the inbound and every combination of panel answers.      *)
(***************************************************************************)
AddInit ==
    /\ xcfg \in XuiConfigs
    /\ authorized \in {a \in BOOLEAN : a => (xcfg.api_token \/ xcfg.creds)}
    /\ uuid_count \in 0..(MaxUuid - 1)
    /\ inbound_clients \in SUBSET (1..uuid_count)
    /\ xres = NoCall
    /\ delete_called = {}
    /\ deleted_logged = {}
    /\ panel \in AddEnvs(authorized, xcfg)
    /\ DbIdle

Provision ==
    /\ xres.op = "none"
    /\ LET r == add_vless_client(authorized, xcfg, inbound_clients,
                                 uuid_count + 1, panel)
       IN  /\ xres' = r
           /\ authorized' = r.authorized
           /\ inbound_clients' = r.clients
           /\ uuid_count' = IF r.outcome = "login_failed"
                            THEN uuid_count ELSE uuid_count + 1
    /\ UNCHANGED <<xcfg, delete_called, deleted_logged, panel, dbvars, botvars>>

AddNext == Provision

SpecAdd == AddInit /\ [][AddNext]_vars

(***************************************************************************)
(* SpecQuota: the totalGB a client is sent to the panel with, computed     *)
(* once for every traffic_gb by add_vless_client (line 132) and by         *)
(* VlessClient.to_3xui_json (line 30).  Python integers have no width; a   *)
(* byte count is kept here as its digits in base 32768, least significant  *)
(* first and without leading zeros, so 0 is the empty sequence.            *)
(***************************************************************************)

\* The literal 1073741824.
GiB == <<0, 0, 1>>

\* int * int of Python: n times the number with the given digits.
RECURSIVE times_from(_, _, _, _)
times_from(n, digits, i, carry) ==
    IF i > Len(digits)
    THEN IF carry = 0 THEN << >> ELSE <<carry % 32768>> \o
             times_from(n, digits, i, carry \div 32768)
    ELSE LET p == n * digits[i] + carry
         IN  <<p % 32768>> \o times_from(n, digits, i + 1, p \div 32768)

RECURSIVE canon(_)
canon(digits) ==
    IF digits # << >> /\ digits[Len(digits)] = 0
    THEN canon(SubSeq(digits, 1, Len(digits) - 1))
    ELSE digits

\* traffic_gb is a record: given is FALSE for None, gb the integer.

\* Line 132 multiplying by 10^9 = 30517 * 32768 + 18944.
total_gb_bytes_decimal(traffic_gb) ==
    IF ~traffic_gb.given \/ traffic_gb.gb = 0 THEN << >>
    ELSE canon(times_from(traffic_gb.gb, <<18944, 30517>>, 1, 0))

\* Line 132: 0 if (traffic_gb is None or traffic_gb == 0)
\*           else traffic_gb * 1073741824
total_gb_bytes(traffic_gb) ==
    IF ~traffic_gb.given \/ traffic_gb.gb = 0 THEN << >>
    ELSE canon(times_from(traffic_gb.gb, GiB, 1, 0))

\* Line 30: (self.total_gb or 0) * 1073741824
to_3xui_json(total_gb) ==
    canon(times_from(IF total_gb.given /\ total_gb.gb # 0 THEN total_gb.gb
                     ELSE 0, GiB, 1, 0))

QuotaInit ==
    /\ xcfg = [api_token |-> TRUE, creds |-> FALSE, inbound_id |-> 1]
    /\ authorized = TRUE
    /\ inbound_clients = {}
    /\ uuid_count = 0
    /\ xres = NoCall
    /\ delete_called = {}
    /\ deleted_logged = {}
    /\ panel \in [given : {FALSE}, gb : {0}]
                 \cup [given : {TRUE}, gb : 0..MaxTraffic]
    /\ DbIdle

\* Lines 132-145: the totalGB of client_dict.
ClientDict ==
    /\ xres.op = "none"
    /\ xres' = [op |-> "client_dict", totalGB |-> total_gb_bytes(panel)]
    /\ UNCHANGED <<xcfg, authorized, inbound_clients, uuid_count,
                   delete_called, deleted_logged, panel, dbvars, botvars>>

\* Lines 23-35: the totalGB of the payload of a VlessClient.
ToJson ==
    /\ xres.op = "none"
    /\ xres' = [op |-> "to_3xui_json", totalGB |-> to_3xui_json(panel)]
    /\ UNCHANGED <<xcfg, authorized, inbound_clients, uuid_count,
                   delete_called, deleted_logged, panel, dbvars, botvars>>

SpecQuota == QuotaInit /\ [][ClientDict \/ ToJson]_vars

(***************************************************************************)
(* SpecUri: the link add_vless_client returns (lines 174, 249-273), built  *)
(* once for every listen address, port and display name and for inbounds   *)
(* with and without a public key and a short id.                           *)
(***************************************************************************)

UriInbounds ==
    LET RealityInbound ==
            [PlainInbound EXCEPT
                !.streamSettings = "json_object", !.realitySettings = "object",
                !.settings = "object",
                !.reality = [NoFields EXCEPT !.serverNames = "list"],
                !.nested = [NoFields EXCEPT !.fingerprints = "list"]]
    IN  {PlainInbound}
        \cup { [RealityInbound EXCEPT !.nested.publicKey = k,
                                      !.reality.shortId = s] :
                 k \in {"absent", "empty_str", "text"},
                 s \in {"absent", "text"} }

UriInit ==
    /\ xcfg = [api_token |-> TRUE, creds |-> FALSE, inbound_id |-> 1]
    /\ authorized = TRUE
    /\ inbound_clients = {1}
    /\ uuid_count = 1
    /\ xres = NoCall
    /\ delete_called = {}
    /\ deleted_logged = {}
    /\ panel \in [chosen : UriInbounds,
                  listen : {"absent", "empty_str", "0.0.0.0", "203.0.113.7"},
                  port : {"absent", "0", "443"},
                  display_name : {"", "Anna"}]
    /\ DbIdle

\* add_vless_client from line 174 to its return: the credential uuid_count
\* is on the panel and the inbound was found in the listing.
FormatLink ==
    /\ xres.op = "none"
    /\ LET r == build_link(panel.chosen)
       IN  xres' = [op |-> "uri", raised |-> r.raised,
                    id |-> uuid_count,
                    link |-> vless_link(uuid_count, server_ip(panel.listen),
                                        link_port(panel.port), r,
                                        link_label(panel.display_name,
                                                   "tg_1_0"))]
    /\ UNCHANGED <<xcfg, authorized, inbound_clients, uuid_count,
                   delete_called, deleted_logged, panel, dbvars, botvars>>

SpecUri == UriInit /\ [][FormatLink]_vars

(***************************************************************************)
(* SpecLogin: login() called once on a fresh XUIClient, for every          *)
(* configuration and every outcome of the login request.                   *)
(***************************************************************************)
LoginInit ==
    /\ xcfg \in XuiConfigs
    /\ authorized = FALSE
    /\ inbound_clients = {}
    /\ uuid_count = 0
    /\ xres = NoCall
    /\ delete_called = {}
    /\ deleted_logged = {}
    /\ panel \in {[NoPanel EXCEPT !.login = resp] : resp \in LoginResponses}
    /\ DbIdle

Login ==
    /\ xres.op = "none"
    /\ LET r == login(xcfg, panel.login)
       IN  /\ xres' = CallResult("login", 0, authorized, r.authorized, r.posts,
                                 r.raised,
                                 IF r.raised THEN "login_failed" ELSE "logged_in",
                                 {}, {})
           /\ authorized' = r.authorized
    /\ UNCHANGED <<xcfg, inbound_clients, uuid_count, delete_called,
                   deleted_logged, panel, dbvars, botvars>>

LoginNext == Login

SpecLogin == LoginInit /\ [][LoginNext]_vars

(***************************************************************************)
(* SpecAuth: two callers run ensure_login on one XUIClient at the same     *)
(* time.  The source holds no lock: the test of _authorized (line 107) and *)
(* the login request (lines 92-98) are separate steps of a caller.         *)
(***************************************************************************)
AuthInit ==
    /\ xcfg \in XuiConfigs
    /\ authorized = FALSE
    /\ inbound_clients = {}
    /\ uuid_count = 0
    /\ xres = NoCall
    /\ delete_called = {}
    /\ deleted_logged = {}
    /\ panel = NoPanel
    /\ DbIdle

\* Line 107: if not self._authorized.
EnsureLoginTest(t) ==
    /\ pc[t] = "idle"
    /\ xres.logins < MaxLogins
    /\ pc' = [pc EXCEPT ![t] = IF authorized THEN "returned" ELSE "login"]
    /\ UNCHANGED <<xvars, now, users, subscriptions, payments, invites, call,
                   botvars>>

\* Line 108: self.login(), entered with the flag as it was at line 107.
EnsureLoginLogin(t) ==
    /\ pc[t] = "login"
    /\ \E resp \in LoginAnswers(FALSE, xcfg) :
         LET r == login(xcfg, resp)
         IN  /\ authorized' = (authorized \/ r.authorized)
             /\ xres' = [xres EXCEPT
                            !.op = "ensure_login",
                            !.logins = @ + r.posts,
                            !.responses = IF r.posts = 1 THEN Append(@, resp)
                                          ELSE @]
             /\ pc' = [pc EXCEPT ![t] = IF r.raised THEN "raised" ELSE "returned"]
    /\ UNCHANGED <<xcfg, inbound_clients, uuid_count, delete_called,
                   deleted_logged, panel, now, users, subscriptions, payments,
                   invites, call, botvars>>

\* The caller is back and may call again.
EnsureLoginDone(t) ==
    /\ pc[t] \in {"returned", "raised"}
    /\ pc' = [pc EXCEPT ![t] = "idle"]
    /\ UNCHANGED <<xvars, now, users, subscriptions, payments, invites, call,
                   botvars>>

AuthNext ==
    \E t \in Threads :
        \/ EnsureLoginTest(t)
        \/ EnsureLoginLogin(t)
        \/ EnsureLoginDone(t)

SpecAuth == AuthInit /\ [][AuthNext]_vars

(***************************************************************************)
(* SpecLabel: the client dicts add_vless_client builds (lines 127-147) as  *)
(* calls for the users follow each other and the clock of time.time()      *)
(* moves on.  now counts whole seconds; inbound_clients holds the dicts.   *)
(***************************************************************************)

\* Line 128: f"tg_{telegram_user_id}_{int(time.time())}@xui".  The text is
\* fixed by the user id and the second, and by nothing else.
email(telegram_user_id, second) == <<"tg", telegram_user_id, second, "@xui">>

LabelInit ==
    /\ xcfg = [api_token |-> TRUE, creds |-> FALSE, inbound_id |-> 1]
    /\ authorized = TRUE
    /\ inbound_clients = {}
    /\ uuid_count = 0
    /\ xres = NoCall
    /\ delete_called = {}
    /\ deleted_logged = {}
    /\ panel = NoPanel
    /\ DbIdle

\* Lines 127-147: the client dict of one call; uuid4() hands out a value it
\* has not handed out before.
BuildClient(u) ==
    /\ uuid_count < MaxCalls
    /\ uuid_count' = uuid_count + 1
    /\ inbound_clients' = inbound_clients \cup
           {[id |-> uuid_count + 1, email |-> email(u, now), user |-> u]}
    /\ UNCHANGED <<xcfg, authorized, xres, delete_called, deleted_logged,
                   panel, dbvars, botvars>>

LabelNext ==
    \/ Tick
    \/ \E u \in UserIds : BuildClient(u)

SpecLabel == LabelInit /\ [][LabelNext]_vars

(***************************************************************************)
(* SpecLink: the connection link of add_vless_client (lines 174-266),      *)
(* built once for every shape of the chosen inbound's transport settings.  *)
(* A value is modelled by its JSON shape; a value that ends up in the link *)
(* is named by the field it was read from.                                 *)
(***************************************************************************)

LinkInit ==
    /\ xcfg = [api_token |-> TRUE, creds |-> FALSE, inbound_id |-> 1]
    /\ authorized = TRUE
    /\ inbound_clients = {1}
    /\ uuid_count = 1
    /\ xres = NoCall
    /\ delete_called = {}
    /\ deleted_logged = {}
    /\ panel \in Inbounds
    /\ DbIdle

\* add_vless_client from line 174 on: the credential is on the panel and the
\* inbound was found in the listing.
BuildLink ==
    /\ xres.op = "none"
    /\ xres' = build_link(panel)
    /\ UNCHANGED <<xcfg, authorized, inbound_clients, uuid_count,
                   delete_called, deleted_logged, panel, dbvars, botvars>>

LinkNext == BuildLink

SpecLink == LinkInit /\ [][LinkNext]_vars

(***************************************************************************)
(* Properties of delete_client.                                            *)
(***************************************************************************)

\* SpecRevoke: the call under test got through login, found its inbound in
\* the listing and read a well-formed settings object.
LookupDone ==
    /\ \/ xres.was_authorized
       \/ xcfg.api_token
       \/ xcfg.creds /\ panel.login \in {"200", "302"}
    /\ xcfg.inbound_id # 0
    /\ panel.list = "ok"
    /\ panel.settings # "malformed"

\* SpecRevoke: the credential of the call under test was in the client list
\* the call read.
Listed ==
    /\ LookupDone
    /\ panel.settings = "object"
    /\ xres.client \in xres.before

Succeeding == {i \in StrategyIdx : panel.strategy[i] = "ok"}

FirstSucceeding == CHOOSE i \in Succeeding : \A j \in Succeeding : i <= j

\* C5 as stated: delete_client never raises, whatever the panel does.
C5_NeverRaises ==
    xres.op = "delete_client" => ~xres.raised

\* C5 as amended: delete_client raises exactly when login fails, the inbound
\* id is unset, the listing cannot be read, the inbound is not in the
\* listing or its settings are malformed, and then it has sent no update
\* request; whatever the update endpoints answer, it returns normally.
C5_RaisesOnlyBeforeUpdates ==
    xres.op = "delete_client" =>
        /\ xres.raised <=> ~LookupDone
        /\ xres.raised => xres.requests = << >> /\ xres.clients = xres.before

C5_Witness ==
    /\ xres.op = "delete_client"
    /\ ~xres.raised
    /\ xres.requests = Strategies
    /\ \E i \in StrategyIdx : panel.strategy[i] = "exception"

\* C7: with the credential in the client list, the requests sent are the
\* strategies in source order up to and including the first one the panel
\* answers with success, and nothing after it.
C7_FixedOrderStopsAtFirstSuccess ==
    (xres.op = "delete_client" /\ Listed) =>
        IF Succeeding = {}
        THEN xres.requests = Strategies
        ELSE /\ xres.requests = SubSeq(Strategies, 1, FirstSucceeding)
             /\ xres.outcome = "deleted"
             /\ ~xres.raised

C7_Witness ==
    /\ xres.op = "delete_client"
    /\ Listed
    /\ Succeeding = {3, 5}
    /\ xres.requests = SubSeq(Strategies, 1, 3)
    /\ xres.outcome = "deleted"

\* C8: when all five strategies fail, in whatever mix of non-200 status,
\* success = false and exception, delete_client has sent each strategy
\* exactly once, printed the warning and returned without raising.
C8_AllFailWarnsAndReturns ==
    (xres.op = "delete_client" /\ Listed /\ Succeeding = {}) =>
        /\ ~xres.raised
        /\ xres.outcome = "warning"
        /\ xres.requests = Strategies
        /\ xres.clients = xres.before

C8_Witness ==
    /\ xres.op = "delete_client"
    /\ Listed
    /\ {panel.strategy[i] : i \in StrategyIdx} = FailureKinds
    /\ xres.outcome = "warning"

\* The outcomes with which delete_client raises.
RaisingOutcomes ==
    {"login_failed", "inbound_id_not_set", "list_failed", "inbound_not_found",
     "settings_malformed"}

\* C6 as stated: a second delete_client call on an id never raises, sends no
\* update request when the credential is absent, reports "not found" and
\* logs no second deletion.
C6_SecondCallNeverRaises ==
    (xres.op = "delete_client" /\ xres.repeated) =>
        /\ ~xres.raised
        /\ xres.client \notin xres.before =>
               xres.requests = << >> /\ xres.outcome = "not_found"
        /\ ~xres.relogged

\* C6 as amended: a second delete_client call on an id raises only for the
\* reasons a first call does; when it reads a client list without the
\* credential it sends no update request, reports "not found" and leaves
\* the list alone; no id is ever logged as deleted twice.
C6_SecondCallSkipsAbsent ==
    (xres.op = "delete_client" /\ xres.repeated) =>
        /\ xres.raised =>
               /\ xres.outcome \in RaisingOutcomes
               /\ xres.requests = << >>
        /\ (~xres.raised /\ xres.client \notin xres.before) =>
               /\ xres.requests = << >>
               /\ xres.outcome = "not_found"
               /\ xres.clients = xres.before
        /\ ~xres.relogged

C6_Witness ==
    /\ xres.op = "delete_client"
    /\ xres.repeated
    /\ xres.client \in deleted_logged
    /\ xres.outcome = "not_found"
    /\ xres.requests = << >>


(***************************************************************************)
(* Properties of create_subscription_for_user and use_invite_code.         *)
(***************************************************************************)

ActiveRows(u) ==
    {i \in 1..Len(subscriptions) :
        /\ subscriptions[i].user_id = u
        /\ subscriptions[i].status = "active"
        /\ subscriptions[i].end_date >= now}

\* C3: whatever the interleaving of create_subscription_for_user calls, a
\* user never has two active subscription rows.
C3_OneActiveRow ==
    \A u \in UserIds : Cardinality(ActiveRows(u)) <= 1

\* C4: whatever the interleaving of use_invite_code calls on a code, its
\* used_by is set once, by the one call that returns True.
C4_ConsumedOnce ==
    \A i \in 1..Len(invites) :
        /\ invites[i].writes <= 1
        /\ Cardinality({t \in Threads : pc[t] = "True" /\ call[t].row = i}) <= 1

\* C1: a payment is completed only once a VPN credential has been created:
\* no state holds a completed payment of a user for whom the bot has not
\* yet issued any credential.
C1_CompletedAfterCredential ==
    \A i \in 1..Len(payments) :
        payments[i].status = "completed" => key_seq > 0

\* C9: whatever create_key, key_server and replace callbacks arrive, and in
\* whatever order, a user never has more than three keys in vpn_keys.
C9_AtMostThreeKeys ==
    \A u \in Customers : get_user_keys_count(vpn_keys, u) <= KeysLimit

\* C10: a replacement that succeeds leaves the user with as many keys as
\* before and without the row of the key it was to replace, and at no
\* moment in between does the user hold more keys than before.
C10_SwapKeepsCount ==
    [][\A u \in Customers :
          /\ last'.outcome = "replaced" =>
                 /\ get_user_keys_count(vpn_keys', u) = get_user_keys_count(vpn_keys, u)
                 /\ last'.peak <= get_user_keys_count(vpn_keys, u)
          /\ \A s \in ServerIds, k \in KeyIds :
                 HandleReplaceKeyServer(u, s, k) /\ last'.outcome = "replaced" =>
                     get_key_by_id(vpn_keys', k, u) = {}]_vars

\* C11: a new (non-renewal) purchase takes effect only for a user without an
\* active subscription: while one is active, select_plan does not take the
\* plan and process_successful_payment leaves the users row and the
\* payments table as they are.
C11_NewPurchaseNeedsNoActive ==
    [][\A u \in Customers, p \in DOMAIN SUBSCRIPTION_PLANS :
          active_sub(users, u, now) =>
              /\ SelectPlan(u, p) => fsm'[u].plan # p
              /\ \A s \in ServerIds :
                     ProcessSuccessfulPayment(u, p, s) =>
                         users' = users /\ payments' = payments]_vars

\* Whole days left of u's subscription, as select_plan counts them:
\* int(julianday(subscription_end) - julianday('now')) at a moment inside
\* day now.
days_remaining(u) == users[u].subscription_end - now - 1

\* C12: a renewal is accepted only for a user with an active subscription
\* that has at most three days left: otherwise select_plan does not take
\* the renewal plan and process_successful_payment leaves the users row and
\* the payments table as they are.
C12_RenewalOnlyInWindow ==
    [][\A u \in Customers, p \in DOMAIN RENEWAL_PLANS :
          ~(active_sub(users, u, now) /\ days_remaining(u) <= RenewalWindow) =>
              /\ SelectPlan(u, p) => fsm'[u].plan # p
              /\ \A s \in ServerIds :
                     ProcessSuccessfulPayment(u, p, s) =>
                         users' = users /\ payments' = payments]_vars

\* C13: get_user_active_subscription never returns a row whose end date is
\* before now, and a newest active row it finds past its end date is stored
\* as expired by the read.
C13_OverdueRowExpiresOnRead ==
    [][\A t \in Threads, u \in UserIds, d \in PlanDays :
          SvcCheck(t, u, d) =>
              LET i == newest_active(subscriptions, u)
              IN  /\ pc'[t] = "rejected" =>
                         i # 0 /\ subscriptions[i].end_date >= now
                  /\ (i # 0 /\ subscriptions[i].end_date < now) =>
                         /\ pc'[t] # "rejected"
                         /\ subscriptions'[i].status = "expired"]_vars

C13_Witness ==
    \E t \in Threads :
        /\ pc[t] = "provision"
        /\ call[t].writes = {"expire"}
        /\ \E i \in 1..Len(subscriptions) :
               /\ subscriptions[i].user_id = call[t].user
               /\ subscriptions[i].status = "expired"
               /\ subscriptions[i].end_date < now

\* C14: the expiry sweep run today switches off every subscription that is
\* on and whose end date is before today, clearing its renewal_used flag,
\* and leaves every row whose end date is after today as it is.
C14_SweepFlipsOnlyOverdue ==
    [][CheckExpiredSubscriptions =>
          \A u \in DOMAIN users :
              /\ (/\ users[u].pay_subscribed = 1
                  /\ users[u].subscription_end # NoDate
                  /\ users[u].subscription_end < now) =>
                     /\ users'[u].pay_subscribed = 0
                     /\ users'[u].renewal_used = 0
                     /\ users'[u].subscription_end = users[u].subscription_end
              /\ users[u].subscription_end > now => users'[u] = users[u]]_vars

C14_Witness ==
    /\ last.outcome = "swept"
    /\ last.peak = 1
    /\ \E u, v \in DOMAIN users :
           /\ users[u].pay_subscribed = 0
           /\ users[u].renewal_used = 0
           /\ users[u].subscription_end # NoDate
           /\ users[u].subscription_end < now
           /\ users[v].pay_subscribed = 1
           /\ users[v].renewal_used = 1
           /\ users[v].subscription_end > now

\* C15: a user with balance B >= the plan's price and no active
\* subscription who buys the plan ends with balance B - price and with
\* exactly one completed payment that references the new subscription.
C15_PurchaseDebitsAndRecords ==
    (pc[Buyer] = "created" /\ call[Buyer].balance >= PlanPrice) =>
        /\ users[Buyer].balance = call[Buyer].balance - PlanPrice
        /\ Cardinality({i \in 1..Len(payments) :
               /\ payments[i].status = "completed"
               /\ payments[i].subscription_id = Len(subscriptions)}) = 1


\* The inbound's transport settings have the types the panel documents: a
\* JSON object in the streamSettings string, an object under realitySettings
\* and an object (or a string holding one) under its settings.
WellTyped(chosen) ==
    /\ chosen.streamSettings \in {"absent", "json_object"}
    /\ chosen.realitySettings \in {"absent", "empty", "object"}
    /\ chosen.settings \in {"absent", "object", "json_object"}

\* No short id, server name or fingerprint anywhere in the settings.
LacksAll(chosen) ==
    \A f \in {"shortId", "shortIds", "serverNames", "fingerprints"} :
        chosen.reality[f] = "absent" /\ chosen.nested[f] = "absent"

\* C16: for an inbound whose transport settings hold no shortId, no
\* serverNames and no fingerprints at all, add_vless_client raises nothing
\* and returns a link with sid=3d, sni=google.com and fp=chrome.
C16_MissingFieldsGiveDefaults ==
    (xres.op = "link" /\ WellTyped(panel) /\ LacksAll(panel)) =>
        /\ ~xres.raised
        /\ xres.sid = "3d"
        /\ xres.sni = "google.com"
        /\ xres.fp = "chrome"

\* A link was built from reality settings that hold a public key and none
\* of the three fields.
C16_Witness ==
    /\ xres.op = "link"
    /\ panel.realitySettings = "object"
    /\ panel.nested.publicKey = "text"
    /\ LacksAll(panel)
    /\ xres.pbk = "settings.publicKey"
    /\ xres.sid = "3d"

\* C17: building the link never raises, whatever the shape of the inbound's
\* streamSettings / realitySettings payload: once the credential is on the
\* panel add_vless_client returns a link.
C17_LinkNeverRaises ==
    xres.op = "link" => ~xres.raised


\* login() ran with username and password and without a token.
PasswordLogin == xres.op = "login" /\ xcfg.creds /\ ~xcfg.api_token

\* C18 as stated: a login with username and password authenticates the
\* session for every 2xx or redirect status of the response, and raises,
\* leaving the session unauthenticated, for any other status or a network
\* error.
C18_Any2xxOrRedirectLogsIn ==
    PasswordLogin =>
        IF panel.login \in {"200", "204", "301", "302"}
        THEN authorized /\ ~xres.raised
        ELSE ~authorized /\ xres.raised

\* C18, amended: a login with username and password authenticates the
\* session exactly when the response status is 200 or 302; for every other
\* status, 2xx and 3xx included, and for a connection error or timeout it
\* raises and leaves the session unauthenticated.  One request is sent
\* either way.
C18_Only200Or302LogsIn ==
    PasswordLogin =>
        /\ xres.logins = 1
        /\ IF panel.login \in {"200", "302"}
           THEN authorized /\ ~xres.raised
           ELSE ~authorized /\ xres.raised

\* A password login was answered 204 and raised.
C18_Witness ==
    PasswordLogin /\ panel.login = "204" /\ xres.raised /\ ~authorized

\* C19: with a token configured login() authenticates the session at once
\* and sends no request, whether or not username and password are set and
\* whatever the panel would answer.
C19_TokenLogsInWithoutRequest ==
    (xres.op = "login" /\ xcfg.api_token) =>
        authorized /\ ~xres.raised /\ xres.logins = 0

\* login() ran with a token and with username and password, against a
\* panel that would have refused the password.
C19_Witness ==
    /\ xres.op = "login"
    /\ xcfg.api_token
    /\ xcfg.creds
    /\ panel.login = "401"
    /\ authorized


\* C20: ensure_login logs in only while the session is not authenticated:
\* once a session is authenticated every later add_vless_client or
\* delete_client call leaves it authenticated and sends no login request,
\* so a session sees at most one successful login request.
C20_NoLoginOnceAuthorized ==
    [][authorized => (authorized' /\ xres'.logins = 0)]_vars

\* A call ran in a session that an earlier call had logged in with
\* username and password.
C20_Witness ==
    /\ xres.op \in {"add_vless_client", "delete_client"}
    /\ xres.was_authorized
    /\ xcfg.creds
    /\ ~xcfg.api_token
    /\ xres.logins = 0


\* C21: authentication is serialized on one panel session: when two callers
\* run ensure_login at the same time on an unauthenticated session, the
\* login is not submitted twice, so at most one login request of the
\* session is answered with success.
C21_NoDoubleLogin ==
    Cardinality({i \in 1..Len(xres.responses) :
                    xres.responses[i] \in {"200", "302"}}) <= 1


\* C22: a server is never deleted while a key refers to it: every vpn_keys
\* row names a server that exists.
C22_NoKeyOnMissingServer ==
    \A k \in vpn_keys : servers[k.server_id] # "absent"


\* C23: first referrer wins: once a user's referrer is set, by
\* get_or_create_user at registration or by use_invite_code, no later
\* operation changes it.
C23_ReferrerSetOnce ==
    [][\A u \in UserIds :
          (users[u].exists /\ users[u].referrer_id # NoUser) =>
              users'[u].referrer_id = users[u].referrer_id]_vars

\* use_invite_code returned True for a user whose referrer is someone other
\* than the inviter of the code: the referrer set earlier was kept.
C23_Witness ==
    \E t \in Threads :
        /\ pc[t] = "True"
        /\ users[call[t].user].exists
        /\ users[call[t].user].referrer_id # NoUser
        /\ users[call[t].user].referrer_id # call[t].inviter

\* The user reached from u by following referrer_id n times.
RECURSIVE referrer_at(_, _)
referrer_at(u, n) ==
    IF n = 0 \/ u = NoUser THEN u
    ELSE referrer_at(IF users[u].exists THEN users[u].referrer_id ELSE NoUser,
                     n - 1)

\* C24: the referrer relation is acyclic: following referrer_id from a user
\* never leads back to that user.
C24_ReferrersAcyclic ==
    \A u \in UserIds, n \in 1..Cardinality(UserIds) :
        users[u].exists => referrer_at(u, n) # u


\* C25: when a user confirms the deletion of one of their keys, the key's
\* row is gone afterwards whatever the remote delete came to: it returned
\* (deleted, or every strategy exhausted), it raised, or the server is no
\* longer known.
C25_KeyRowRemovedRegardless ==
    [][\A u \in Customers, k \in KeyIds :
          (HandleConfirmDelete(u, k) /\ get_key_by_id(vpn_keys, k, u) # {}) =>
              /\ get_key_by_id(vpn_keys', k, u) = {}
              /\ last'.outcome = "deleted"]_vars

\* A key was deleted although delete_client raised: a key id that was
\* issued has no row.
C25_Witness ==
    /\ last.outcome = "deleted"
    /\ last.revoke = "raised"
    /\ \E k \in 1..key_seq : \A row \in vpn_keys : row.id # k


\* C26: any two add_vless_client calls for one user produce different
\* emails and different credential ids, also within the same second.
C26_LabelsDiffer ==
    \A c1, c2 \in inbound_clients :
        (c1 # c2 /\ c1.user = c2.user) =>
            c1.email # c2.email /\ c1.id # c2.id


\* C27: the status of a subscription row changes only from active, and only
\* to expired or cancelled; a row that is expired or cancelled keeps its
\* status, and no row is removed.
C27_StatusOnlyLeavesActive ==
    [][/\ Len(subscriptions') >= Len(subscriptions)
       /\ \A i \in 1..Len(subscriptions) :
             subscriptions'[i].status # subscriptions[i].status =>
                 /\ subscriptions[i].status = "active"
                 /\ subscriptions'[i].status \in {"expired", "cancelled"}]_vars

\* A user has an expired row and, after it, a newer row that is active: the
\* new purchase left the expired row expired.
C27_Witness ==
    \E i, j \in 1..Len(subscriptions) :
        /\ i < j
        /\ subscriptions[i].user_id = subscriptions[j].user_id
        /\ subscriptions[i].status = "expired"
        /\ subscriptions[j].status = "active"

\* C29: the row create_subscription inserts is active, starts now and ends
\* days later, days being the days of the call; dates of stored rows are
\* never rewritten, so end_date = start_date + days holds of every row.
C29_EndIsStartPlusDays ==
    [][/\ \A t \in Threads :
             SvcCreate(t) =>
                 LET row == subscriptions'[Len(subscriptions')]
                 IN  /\ Len(subscriptions') = Len(subscriptions) + 1
                     /\ row.status = "active"
                     /\ row.start_date = now
                     /\ row.days = call[t].days
                     /\ row.end_date = row.start_date + row.days
       /\ \A i \in 1..Len(subscriptions') :
             subscriptions'[i].end_date =
                 subscriptions'[i].start_date + subscriptions'[i].days]_vars

\* A subscription of two days was created on a day after day 0.
C29_Witness ==
    \E t \in Threads :
        /\ pc[t] = "created"
        /\ Len(subscriptions) > 0
        /\ LET row == subscriptions[Len(subscriptions)]
           IN  /\ row.user_id = call[t].user
               /\ row.days = 2
               /\ row.start_date > 0
               /\ row.end_date = row.start_date + 2


\* C28: use_invite_code is all or nothing.  The stored tables change only
\* when a call commits, and then the invite is marked used by the caller,
\* the caller's referrer is set if it had none and the inviter's count is
\* one higher, all in that one step; a call that raises leaves the stored
\* tables as they were, whichever statement raised.
C28_InviteAllOrNothing ==
    [][/\ \A t \in Threads :
             (pc[t] # "raised" /\ pc'[t] = "raised") =>
                 UNCHANGED <<users, invites>>
       /\ (<<users, invites>>' # <<users, invites>>) =>
             \E t \in Threads :
                 LET u == call[t].user
                     inv == call[t].inviter
                 IN  /\ pc[t] = "counted" /\ pc'[t] = "True"
                     /\ invites'[call[t].row].used_by = u
                     /\ users'[inv].invited_count = users[inv].invited_count + 1
                     /\ users'[u].referrer_id =
                            IF users[u].referrer_id = NoUser THEN inv
                            ELSE users[u].referrer_id]_vars

\* A call raised after its UPDATEs of invites and users: what it had
\* written is not in the stored tables.
C28_Witness ==
    \E t \in Threads :
        /\ pc[t] = "raised"
        /\ "tx" \in DOMAIN call[t]
        /\ call[t].tx.invites[call[t].row].used_by = call[t].user
        /\ call[t].tx.users # users
        /\ invites[call[t].row].used_by = NoUser


\* C30: when the addClient request is answered with a status other than
\* success, or with a body whose success flag is false, add_vless_client
\* raises, returns no link, and addClient is the last request it sent to
\* the panel.
C30_AddFailureStopsCall ==
    (/\ xres.op = "add_vless_client"
     /\ Len(xres.requests) > 0
     /\ panel.add \in {"http_error", "success_false"}) =>
        /\ xres.raised
        /\ xres.outcome = "add_failed"
        /\ xres.requests = <<"POST addClient">>

\* addClient was answered 200 with success = false on a session that had
\* just logged in, and the call raised without asking for the listing.
C30_Witness ==
    /\ xres.op = "add_vless_client"
    /\ panel.add = "success_false"
    /\ xres.logins = 1
    /\ xres.raised
    /\ xres.requests = <<"POST addClient">>


\* C31: when addClient succeeded and the listing fetched afterwards does not
\* hold the configured inbound, add_vless_client raises 'inbound not found'
\* and returns no link.
C31_MissingInboundRaises ==
    (/\ xres.op = "add_vless_client"
     /\ xres.requests = <<"POST addClient", "GET list">>
     /\ panel.list = "no_inbound") =>
        xres.raised /\ xres.outcome = "inbound_not_found"

\* The call raised 'inbound not found' with its credential on the panel.
C31_Witness ==
    /\ xres.op = "add_vless_client"
    /\ panel.add = "ok"
    /\ panel.list = "no_inbound"
    /\ xres.outcome = "inbound_not_found"
    /\ xres.client \in inbound_clients

\* The outcomes of add_vless_client that raise before the panel has created
\* the credential, and those that raise after it.
RaisedBeforeAdd == {"login_failed", "inbound_id_not_set", "add_failed"}
RaisedAfterAdd == {"list_failed", "inbound_not_found", "link_failed"}

\* C35 as stated: whenever add_vless_client raises, the panel's client list
\* is as it was before the call.
C35_RaiseLeavesNoCredential ==
    (xres.op = "add_vless_client" /\ xres.raised) =>
        xres.clients = xres.before

\* C35, amended: add_vless_client leaves the panel's client list as it was
\* when it raises up to the addClient response (login failed, inbound id not
\* set, addClient answered with a refusal); when it raises after addClient
\* succeeded (the
\* listing cannot be fetched, the inbound is not in it, the link cannot be
\* built) the credential it created stays on the panel.
C35_RaiseAfterAddLeavesCredential ==
    (xres.op = "add_vless_client" /\ xres.raised) =>
        /\ xres.outcome \in RaisedBeforeAdd \cup RaisedAfterAdd
        /\ (xres.outcome \in RaisedBeforeAdd /\ panel.add # "exception") =>
               xres.clients = xres.before
        /\ xres.outcome \in RaisedAfterAdd =>
               /\ xres.client \notin xres.before
               /\ xres.clients = xres.before \cup {xres.client}

\* The call raised while building the link, and its credential is on the
\* panel.
C35_Witness ==
    /\ xres.op = "add_vless_client"
    /\ xres.outcome = "link_failed"
    /\ xres.client \in inbound_clients
    /\ xres.client \notin xres.before

(***************************************************************************)
(* Properties of the link's parameters.                                    *)
(***************************************************************************)

\* A shortId lookup found a non-empty value.
HasShortId(fields) == fields.shortId \notin {"absent", "null", "empty_str"}

\* A shortIds lookup found a non-empty value: the first element of a list,
\* or the string itself when the panel stores a single id as a string.
HasShortIds(fields) == fields.shortIds \in {"list", "text"}

\* C32: the sid of the link is the first non-empty value in the order
\* realitySettings.shortId, first element of realitySettings.shortIds,
\* settings.shortId, first element of settings.shortIds, and it is 3d
\* exactly when none of the four lookups finds a non-empty value.
C32_ShortIdOrder ==
    (xres.op = "link" /\ ~xres.raised) =>
        LET rs == panel.reality
            st == panel.nested
        IN  /\ HasShortId(rs) => xres.sid = "realitySettings.shortId"
            /\ (~HasShortId(rs) /\ HasShortIds(rs)) =>
                   xres.sid = "realitySettings.shortIds"
            /\ (~HasShortId(rs) /\ ~HasShortIds(rs) /\ HasShortId(st)) =>
                   xres.sid = "settings.shortId"
            /\ (~HasShortId(rs) /\ ~HasShortIds(rs) /\ ~HasShortId(st)
                    /\ HasShortIds(st)) =>
                   xres.sid = "settings.shortIds"
            /\ xres.sid = "3d" <=>
                   (~HasShortId(rs) /\ ~HasShortIds(rs) /\ ~HasShortId(st)
                        /\ ~HasShortIds(st))

\* A link was built from reality settings whose own shortId is empty and
\* whose shortIds list starts with an empty element, while both lookups
\* under settings would succeed: sid is settings.shortId.
C32_Witness ==
    /\ xres.op = "link"
    /\ ~xres.raised
    /\ panel.reality.shortId = "empty_str"
    /\ panel.reality.shortIds = "list_empty_first"
    /\ panel.nested.shortId = "text"
    /\ panel.nested.shortIds = "list"
    /\ xres.sid = "settings.shortId"

\* The names of the query parameters of a link, in the order written.
QueryKeys(link) == [i \in 1..Len(link.query) |-> link.query[i][1]]

\* The value of the parameter written at position i.
QueryValue(link, i) == link.query[i][2]

\* C33: every returned link is vless://{id}@{host}:{port}/? with the
\* parameters type=tcp, encryption=none, security=reality, then pbk exactly
\* when the public key is non-empty, then fp, sni, sid, spx=%2F and
\* flow=xtls-rprx-vision in this order, and ends with #{label}.
C33_LinkForm ==
    (xres.op = "uri" /\ ~xres.raised) =>
        LET link == xres.link
            has_pbk == panel.chosen.nested.publicKey = "text"
            fixed == <<"type", "encryption", "security">>
            rest == <<"fp", "sni", "sid", "spx", "flow">>
            n == Len(link.query)
        IN  /\ link.scheme = "vless"
            /\ link.id = xres.id
            /\ QueryKeys(link) =
                   IF has_pbk THEN fixed \o <<"pbk">> \o rest
                   ELSE fixed \o rest
            /\ QueryValue(link, 1) = "tcp"
            /\ QueryValue(link, 2) = "none"
            /\ QueryValue(link, 3) = "reality"
            /\ QueryValue(link, n - 1) = "%2F"
            /\ QueryValue(link, n) = "xtls-rprx-vision"
            /\ link.fragment =
                   IF panel.display_name = "" THEN "tg_1_0"
                   ELSE panel.display_name

\* A link was returned for an inbound whose public key is the empty string:
\* it has no pbk parameter and fp follows security directly.
C33_Witness ==
    /\ xres.op = "uri"
    /\ ~xres.raised
    /\ panel.chosen.nested.publicKey = "empty_str"
    /\ Len(xres.link.query) = 8
    /\ xres.link.query[4][1] = "fp"

(***************************************************************************)
(* Properties of the traffic quota.                                        *)
(***************************************************************************)

\* C34: the quota sent to the panel is 0 bytes, the panel's "unlimited",
\* when traffic_gb is absent or 0, and traffic_gb * 2^30 bytes for every
\* other non-negative traffic_gb.  In base 32768 = 2^15, traffic_gb * 2^30
\* below 2^45 is the digit traffic_gb in the third place.
C34_QuotaIsGiB ==
    xres.op \in {"client_dict", "to_3xui_json"} =>
        IF ~panel.given \/ panel.gb = 0
        THEN xres.totalGB = << >>
        ELSE xres.totalGB = <<0, 0, panel.gb>>

\* add_vless_client built the client of a call with the default
\* traffic_gb = 30: 32212254720 bytes.
C34_Witness ==
    /\ xres.op = "client_dict"
    /\ panel = [given |-> TRUE, gb |-> 30]
    /\ xres.totalGB = <<0, 0, 30>>

(***************************************************************************)
(* Properties of the lazy expiry.                                          *)
(***************************************************************************)

\* The active rows of user u whose end date is before t.
OverdueActive(subs, u, t) ==
    {i \in 1..Len(subs) :
        /\ subs[i].user_id = u
        /\ subs[i].status = "active"
        /\ subs[i].end_date < t}

\* C36: when get_user_active_subscription(u) returns None it leaves no
\* row of u that is active with an end date in the past: the lazy expiry
\* covers every active row of the user, not only the newest.
C36_NoneLeavesNoOverdueActive ==
    [][\A t \in Threads, u \in UserIds, d \in PlanDays :
          (SvcCheck(t, u, d) /\ pc'[t] = "provision") =>
              OverdueActive(subscriptions', u, now) = {}]_vars

(***************************************************************************)
(* Properties of the referral counters.                                    *)
(***************************************************************************)

\* The users whose referrer is u.
ReferredBy(u) == {v \in UserIds : users[v].exists /\ users[v].referrer_id = u}

\* C37: in every state the invited_count of a user is the number of users
\* whose referrer_id is that user.
C37_CountIsReferred ==
    \A u \in UserIds :
        users[u].exists => users[u].invited_count = Cardinality(ReferredBy(u))

(***************************************************************************)
(* Properties of a recorded payment.                                       *)
(***************************************************************************)

\* C38: right after process_successful_payment has recorded a completed
\* payment of a user, that user has an active subscription: pay_subscribed
\* is 1 and subscription_end is not before today, for new and renewal plans
\* alike and whatever the subscription was when the payment arrived.
C38_PaidMeansActive ==
    [][\A u \in Customers, plan \in PlanIds, s \in ServerIds :
          (ProcessSuccessfulPayment(u, plan, s) /\ Len(payments') > Len(payments))
              => active_sub(users', u, now')]_vars

(***************************************************************************)
(* Properties of the server a credential is created on.                    *)
(***************************************************************************)

\* C40: no credential is provisioned on a server whose active flag is
\* false: whenever a key handler has add_vless_client create a credential
\* for a new or a replacement key, the server it targets is active at that
\* moment.
C40_ProvisionOnlyOnActive ==
    [][\A u \in Customers, s \in ServerIds :
          (/\ \/ HandleKeyServerSelection(u, s)
              \/ \E k \in KeyIds : HandleReplaceKeyServer(u, s, k)
           /\ key_seq' = key_seq + 1)
              => servers[s] = "active"]_vars

(***************************************************************************)
(* Properties of a failed login.                                           *)
(***************************************************************************)

\* C39: a call whose login fails leaves the session unauthenticated; a
\* call on an unauthenticated session with username and password sends a
\* login request again; and the session becomes authenticated only in a
\* call whose login succeeded or under a configured token.
C39_FailedLoginStaysOut ==
    [][/\ xres'.outcome = "login_failed" => ~authorized'
       /\ (~authorized /\ xcfg.creds /\ ~xcfg.api_token) => xres'.logins = 1
       /\ (~authorized /\ authorized') =>
              \/ xcfg.api_token
              \/ xres'.logins = 1 /\ xres'.outcome # "login_failed"]_vars

\* An earlier call of the session has failed to log in with username and
\* password; this call sent the login request again, was refused too, and
\* the session is still unauthenticated.
C39_Witness ==
    /\ xcfg.creds
    /\ ~xcfg.api_token
    /\ delete_called # {}
    /\ xres.op = "add_vless_client"
    /\ ~xres.was_authorized
    /\ xres.outcome = "login_failed"
    /\ xres.logins = 1
    /\ ~authorized

=============================================================================
